---------------------------- MODULE Spec2Model ----------------------------
(***************************************************************************)
(* A model of the Storyteller dice bot: the per-channel initiative table   *)
(* (storyteller/parse/initiative.py, tzimisce/initiative/initiative.py)    *)
(* and the macro store (storyteller/databases/database.py).                *)
(*                                                                         *)
(* Text is modelled as a sequence of one-character strings, so that        *)
(* int(), str(), split() and the regular expressions of the code are       *)
(* computed and not assumed.                                               *)
(***************************************************************************)
EXTENDS Integers, Sequences, FiniteSets, TLC

VARIABLES
    table,      \* the channel's place in the table registry: whether a manager is
                \* registered, and the manager's entries in order
    rows,       \* the persisted initiative rows of the channel
    present,    \* history: the characters added and not removed since
    last,       \* the last command handled and the Response it produced
    cobj,       \* two commands in flight: the InitiativeManager objects
    creg,       \* ... the object registered for the channel (0: none)
    ctask,      \* ... each command, its place in its handler, its manager
    cinit,      \* ... history: the table the two commands started from
    macros,     \* the SavedRolls table: the stored macros
    mlast,      \* the last macro command and what query_saved_rolls returned
    mcmd,       \* history: the text of the last macro command
    mwho,       \* history: the guild and the user of the last macro command
    default_diff,   \* the guild's setting default_diff, as the cache holds it
    proll,      \* the pool roll the last command came to: rolled or rejected
    droll,      \* the last roll evaluated: its dice, its rules and its result
    gstore,     \* the GuildSettings table: each guild's row, if it has one
    gcache,     \* SettingsDB.__all_settings: each guild's own dict, if it has one
    gdefault,   \* ... default_params, the one dict of every guild without its own
    pstore,     \* the Guilds table: each guild's prefix, if it has a row
    custom_prefixes,    \* masquerade.py: the prefixes as last fetched
    glast,      \* the last settings command and its outcome
    gcount,     \* history: the number of settings commands so far
    command,    \* a message of standard_roll: its raw and clean text, then its split
    rmsg,       \* a message reacted to: author, embeds, mentions, text, reactions
    rtask,      \* each reaction event: its reaction, its user, its place in on_reaction_add
    rolled      \* history: the suggestions rolled, each with the user it was rolled for

ivars == <<table, rows, present, last>>
cvars == <<cobj, creg, ctask, cinit>>
mvars == <<macros, mlast, mcmd, mwho>>
svars == <<default_diff, proll>>
gvars == <<gstore, gcache, gdefault, pstore, custom_prefixes, glast, gcount>>
rvars == <<rmsg, rtask, rolled>>
xvars == <<droll, gvars, command, rvars>>
vars == <<ivars, cvars, mvars, svars, xvars>>

None == "None"

-----------------------------------------------------------------------------
(* Bounds of the model                                                     *)

MaxEntries == 2     \* entries a table holds at most
MaxMod == 3         \* |modifier| an entry reaches at most

(* Program constants                                                       *)

D10 == 10           \* roll.Traditional.roll(1, 10)

-----------------------------------------------------------------------------
(* Text: characters, int(), str()                                          *)

Digits == <<"0", "1", "2", "3", "4", "5", "6", "7", "8", "9">>

IsDigit(c) == \E i \in 1..10 : Digits[i] = c

DigitVal(c) == (CHOOSE i \in 1..10 : Digits[i] = c) - 1

\* str.isdigit(): non-empty and all digits
IsDigitStr(s) == Len(s) > 0 /\ \A i \in 1..Len(s) : IsDigit(s[i])

RECURSIVE NatOf(_)
NatOf(s) == IF Len(s) = 0 THEN 0
            ELSE 10 * NatOf(SubSeq(s, 1, Len(s) - 1)) + DigitVal(s[Len(s)])

\* whether int(s) succeeds: an optional sign and digits
IsIntText(s) ==
    /\ Len(s) > 0
    /\ IF s[1] \in {"+", "-"} THEN IsDigitStr(Tail(s)) ELSE IsDigitStr(s)

ParseIntNegated(s) ==
    IF s[1] = "-" THEN NatOf(Tail(s))
    ELSE IF s[1] = "+" THEN 0 - NatOf(Tail(s))
    ELSE 0 - NatOf(s)

\* int(s)
ParseInt(s) ==
    IF s[1] = "-" THEN 0 - NatOf(Tail(s))
    ELSE IF s[1] = "+" THEN NatOf(Tail(s))
    ELSE NatOf(s)

RECURSIVE NatStr(_)
NatStr(n) == IF n < 10 THEN <<Digits[n + 1]>>
             ELSE NatStr(n \div 10) \o <<Digits[(n % 10) + 1]>>

\* str(n)
IntStr(n) == IF n < 0 THEN <<"-">> \o NatStr(0 - n) ELSE NatStr(n)

\* f"{n:+}"
SignedStr(n) == IF n < 0 THEN <<"-">> \o NatStr(0 - n) ELSE <<"+">> \o NatStr(n)

-----------------------------------------------------------------------------
(* Text: the characters of names, split() and join()                       *)

Letters == {"a", "b", "c", "d", "h", "i", "n", "o", "x", "A", "B"}

\* \w
IsWord(c) == c \in Letters \/ IsDigit(c) \/ c = "_"

\* [\w-]
IsNameChar(c) == IsWord(c) \/ c = "-"

\* the letter in lower case
Lower(c) == CASE c = "A" -> "a" [] c = "B" -> "b" [] OTHER -> c

Drop(s, n) == SubSeq(s, n + 1, Len(s))

\* the number of leading characters of s in [\w-]
RECURSIVE NameEnd(_)
NameEnd(s) == IF Len(s) = 0 \/ ~IsNameChar(s[1]) THEN 0 ELSE 1 + NameEnd(Tail(s))

\* the number of leading digits of s
RECURSIVE DigitsEnd(_)
DigitsEnd(s) == IF Len(s) = 0 \/ ~IsDigit(s[1]) THEN 0 ELSE 1 + DigitsEnd(Tail(s))

\* s without its leading whitespace
RECURSIVE LStrip(_)
LStrip(s) == IF Len(s) > 0 /\ s[1] = " " THEN LStrip(Tail(s)) ELSE s

\* the number of leading characters of s that are not whitespace
RECURSIVE TokenEnd(_)
TokenEnd(s) == IF Len(s) = 0 \/ s[1] = " " THEN 0 ELSE 1 + TokenEnd(Tail(s))

\* s.split()
RECURSIVE Split(_)
Split(s) ==
    LET r == LStrip(s) IN
    IF Len(r) = 0 THEN <<>>
    ELSE <<SubSeq(r, 1, TokenEnd(r))>> \o Split(Drop(r, TokenEnd(r)))

\* " ".join(tokens)
RECURSIVE Join(_)
Join(tokens) ==
    IF Len(tokens) = 0 THEN <<>>
    ELSE IF Len(tokens) = 1 THEN tokens[1]
    ELSE tokens[1] \o <<" ">> \o Join(Tail(tokens))

-----------------------------------------------------------------------------
(* The macro store (storyteller/databases/database.py)                     *)

MaxMacros == 2      \* rows the SavedRolls table holds at most

DefaultDiff == 6    \* syntax.insert(1, 6)

Guild == "g"
User == "u"

NoMatch == [ok |-> FALSE, name |-> <<>>, rest |-> <<>>, sign |-> None]

Match(name, rest, sign) == [ok |-> TRUE, name |-> name, rest |-> rest, sign |-> sign]

\* storex: ^(?P<name>[\w-]+)\s*=\s*(?P<syntax>.+)$
storex(s) ==
    LET n == NameEnd(s)
        r == LStrip(Drop(s, n))
    IN IF n > 0 /\ Len(r) > 0 /\ r[1] = "=" /\ Len(LStrip(Tail(r))) > 0
       THEN Match(SubSeq(s, 1, n), LStrip(Tail(r)), None)
       ELSE NoMatch

\* commentx: ^(?P<name>[\w-]+)\s+c=(?P<comment>.*)$
commentx(s) ==
    LET n == NameEnd(s)
        r == LStrip(Drop(s, n))
    IN IF n > 0 /\ Len(s) > n /\ s[n + 1] = " "
          /\ Len(r) >= 2 /\ r[1] = "c" /\ r[2] = "="
       THEN Match(SubSeq(s, 1, n), Drop(r, 2), None)
       ELSE NoMatch

\* (?P<sign>[+-])?\d+(?:\s[+-]?\d+)?
IsMods(r) ==
    LET body == IF Len(r) > 0 /\ r[1] \in {"+", "-"} THEN Tail(r) ELSE r
        d == DigitsEnd(body)
        second == Drop(body, d + 1)
    IN /\ d > 0
       /\ \/ Len(body) = d
          \/ /\ body[d + 1] = " "
             /\ Len(second) > 0
             /\ IsDigitStr(IF second[1] \in {"+", "-"} THEN Tail(second) ELSE second)

\* usex: ^(?P<name>[\w-]+)\s*(?P<mods>(?P<sign>[+-])?\d+(?:\s[+-]?\d+)?)?$
usex(s) ==
    LET n == NameEnd(s)
        r == LStrip(Drop(s, n))
    IN IF n > 0 /\ Len(r) = 0 THEN Match(SubSeq(s, 1, n), <<>>, None)
       ELSE IF n > 0 /\ IsMods(r)
       THEN Match(SubSeq(s, 1, n), r, IF r[1] \in {"+", "-"} THEN r[1] ELSE None)
       ELSE NoMatch

\* deletex: ^(?P<name>[\w-]+)\s*=$
deletex(s) ==
    LET n == NameEnd(s)
        r == LStrip(Drop(s, n))
    IN IF n > 0 /\ r = <<"=">> THEN Match(SubSeq(s, 1, n), <<>>, None) ELSE NoMatch

\* multiwordx.match: [\w-]+ [\w-]+
multiwordx(s) ==
    LET n == NameEnd(s)
    IN n > 0 /\ Len(s) >= n + 2 /\ s[n + 1] = " " /\ IsNameChar(s[n + 2])

\* \d+(d\d+)? at the start of s: where it ends (0: not there)
TermEnd(s) ==
    LET d == DigitsEnd(s)
        rest == Drop(s, d)
        faces == IF Len(rest) > 0 /\ rest[1] = "d" THEN DigitsEnd(Tail(rest)) ELSE 0
    IN IF d = 0 THEN 0 ELSE IF faces > 0 THEN d + 1 + faces ELSE d

\* (\s*\+\s*(\d+|\d+d\d+))*$
RECURSIVE TradTail(_)
TradTail(s) ==
    \/ Len(s) = 0
    \/ LET r == LStrip(s) IN
         /\ Len(r) > 0 /\ r[1] = "+"
         /\ LET t == LStrip(Tail(r)) IN
              TermEnd(t) > 0 /\ TradTail(Drop(t, TermEnd(t)))

\* __tradx: ^(?P<syntax>\d+(d\d+)?(\s*\+\s*(\d+|\d+d\d+))*)$
tradx(s) == TermEnd(s) > 0 /\ TradTail(Drop(s, TermEnd(s)))

\* a pool roll: <pool>[ <difficulty>]
IsPoolRoll(s) ==
    LET tokens == Split(s)
    IN Len(tokens) \in {1, 2} /\ \A i \in 1..Len(tokens) : IsDigitStr(tokens[i])

\* storyteller.parse.is_valid_roll: a pool roll or an arithmetic roll
is_valid_roll(s) == IsPoolRoll(s) \/ tradx(s)

valid_definition_any(syntax) == TRUE

\* if storyteller.parse.is_valid_roll(syntax)
valid_definition(syntax) == is_valid_roll(syntax)

dispatch_multiword_first(syntax) ==
    IF storex(syntax).ok THEN "store"
    ELSE IF commentx(syntax).ok THEN "comment"
    ELSE IF multiwordx(syntax) THEN "multiword"
    ELSE IF usex(syntax).ok THEN "use"
    ELSE IF deletex(syntax).ok THEN "delete"
    ELSE "unknown"

\* query_saved_rolls: the first pattern that matches the command
dispatch(syntax) ==
    IF storex(syntax).ok THEN "store"
    ELSE IF commentx(syntax).ok THEN "comment"
    ELSE IF usex(syntax).ok THEN "use"
    ELSE IF deletex(syntax).ok THEN "delete"
    ELSE IF multiwordx(syntax) THEN "multiword"
    ELSE "unknown"

NameEquals(stored, name) == stored = name

\* Name ILIKE %s: the letters compared without their case, _ in the pattern
\* standing for any one character
ILike(stored, name) ==
    /\ Len(stored) = Len(name)
    /\ \A i \in 1..Len(name) :
         name[i] = "_" \/ Lower(name[i]) = Lower(stored[i])

\* the rows the WHERE clause of every query selects
Selected(rs, guild, userid, name) ==
    { r \in rs : r.guild = guild /\ r.user = userid /\ ILike(r.name, name) }

is_roll_stored_exact(rs, guild, userid, name) ==
    \E r \in rs : r.guild = guild /\ r.user = userid /\ r.name = name

\* __is_roll_stored
is_roll_stored(rs, guild, userid, name) == Selected(rs, guild, userid, name) # {}

Row(guild, userid, name, syntax, comment) ==
    [guild |-> guild, user |-> userid, name |-> name,
     syntax |-> syntax, comment |-> comment]

\* what query_saved_rolls returns: a message, or the command with the roll
\* syntax, the comment and the notice of override; a fault when it raises
Returned(op, name, arg, kind, text, syntax, comment, override) ==
    [op |-> op, name |-> name, arg |-> arg, kind |-> kind, text |-> text,
     syntax |-> syntax, comment |-> comment, override |-> override]

Message(op, name, arg, text) ==
    Returned(op, name, arg, "message", text, <<>>, <<>>, <<>>)

\* on_command_error: CommandNotFound is ignored, three kinds of error are
\* answered with a message, every other error is raised again
on_command_error(error) ==
    IF error = "CommandNotFound" THEN "none"
    ELSE IF error \in {"MissingPermissions", "Forbidden", "NoPrivateMessage"}
    THEN "message"
    ELSE "fault"

\* the command raised: nothing in query_saved_rolls catches it
Fault(op, name, arg) ==
    Returned(op, name, arg, on_command_error("ValueError"), "ValueError",
             <<>>, <<>>, <<>>)

updated_row_both(r, syntax, comment) ==
    [r EXCEPT !.syntax = syntax, !.comment = comment]

\* UPDATE SavedRolls SET Syntax, Comment when a comment is given, SET Syntax
\* when none is
updated_row(r, syntax, comment) ==
    IF Len(comment) > 0
    THEN [r EXCEPT !.syntax = syntax, !.comment = comment]
    ELSE [r EXCEPT !.syntax = syntax]

kept_comment_stored_first(stored, given) ==
    IF Len(stored) > 0 THEN stored ELSE given

\* if compound[1] and not command["comment"]: command["comment"] = compound[1]
kept_comment(stored, given) ==
    IF Len(stored) > 0 /\ Len(given) = 0 THEN stored ELSE given

needs_sign_never(pool_mod, sign) == FALSE

\* pool_mod != 0 and not match.group("sign")
needs_sign(pool_mod, sign) == pool_mod # 0 /\ sign = None

diff_is_set_never(diff_mod) == FALSE

\* diff_mod.isdigit(): no +/- sign, the difficulty is set and not adjusted
diff_is_set(diff_mod) == IsDigitStr(diff_mod)

PoolWord == <<"P", "o", "o", "l", " ">>
DiffWord == <<"D", "i", "f", "f", ".", " ">>
ToWord == <<"t", "o", " ">>

\* f"Pool {pool_mod:+}. " if pool_mod != 0 else ""
pool_desc(pool_mod) ==
    IF pool_mod # 0 THEN PoolWord \o SignedStr(pool_mod) \o <<".", " ">> ELSE <<>>

\* the stored tokens with a difficulty: syntax.insert(1, 6) when there is none
with_difficulty(tokens) ==
    IF Len(tokens) = 1 \/ ~IsDigit(tokens[2][1])
    THEN <<tokens[1], IntStr(DefaultDiff)>> \o Tail(tokens)
    ELSE tokens

\* __store_roll
store_roll(guild, userid, name, syntax, comment) ==
    IF ~is_roll_stored(macros, guild, userid, name) THEN
        /\ Cardinality(macros) < MaxMacros
        /\ macros' = macros \cup {Row(guild, userid, name, syntax, comment)}
        /\ mlast' = Message("define", name, syntax, "saved")
    ELSE
        /\ macros' = { IF r \in Selected(macros, guild, userid, name)
                       THEN updated_row(r, syntax, comment)
                       ELSE r : r \in macros }
        /\ mlast' = Message("define", name, syntax,
                            IF Len(comment) > 0 THEN "updated syntax and comment"
                            ELSE "updated syntax")

\* __update_stored_comment
update_stored_comment(guild, userid, name, comment) ==
    IF is_roll_stored(macros, guild, userid, name) THEN
        /\ macros' = { IF r \in Selected(macros, guild, userid, name)
                       THEN [r EXCEPT !.comment = comment]
                       ELSE r : r \in macros }
        /\ mlast' = Message("comment", name, comment, "updated comment")
    ELSE
        /\ mlast' = Message("comment", name, comment, "unable to update")
        /\ UNCHANGED macros

\* delete_stored_roll
delete_stored_roll(guild, userid, name) ==
    IF ~is_roll_stored(macros, guild, userid, name) THEN
        /\ mlast' = Message("delete", name, <<>>, "not found")
        /\ UNCHANGED macros
    ELSE
        /\ macros' = macros \ Selected(macros, guild, userid, name)
        /\ mlast' = Message("delete", name, <<>>, "deleted")

\* the part of __match_stored_roll that recalculates the stored roll: mods
\* is the text of the modifiers, sign the sign of the first; compound is the
\* row fetched and comment the comment of the command
modified_roll(name, mods, sign, compound, comment) ==
    LET ms == Split(mods)
        pool_mod == ParseInt(ms[1])
        syntax == with_difficulty(Split(compound.syntax))
        diff_mod == IF Len(ms) < 2 THEN <<"+", "0">> ELSE ms[2]
        kept == kept_comment(compound.comment, comment)
    IN
    IF needs_sign(pool_mod, sign) THEN
        Message("use", name, mods, "pool modifier needs a sign")
    ELSE IF ~IsIntText(syntax[1]) THEN
        \* int(syntax[0]) raises
        Fault("use", name, mods)
    ELSE IF diff_is_set(diff_mod) THEN
        Returned("use", name, mods, "roll", "",
                 Join(<<IntStr(ParseInt(syntax[1]) + pool_mod), diff_mod>>
                        \o Drop(syntax, 2)),
                 kept,
                 pool_desc(pool_mod) \o DiffWord \o ToWord \o diff_mod \o <<".">>)
    ELSE IF ~IsIntText(syntax[2]) THEN
        \* int(syntax[1]) raises
        Fault("use", name, mods)
    ELSE
        Returned("use", name, mods, "roll", "",
                 Join(<<IntStr(ParseInt(syntax[1]) + pool_mod),
                        IntStr(ParseInt(syntax[2]) + ParseInt(diff_mod))>>
                        \o Drop(syntax, 2)),
                 kept,
                 pool_desc(pool_mod) \o
                    (IF ParseInt(diff_mod) # 0
                     THEN DiffWord \o SignedStr(ParseInt(diff_mod)) \o <<".">>
                     ELSE <<>>))

\* __match_stored_roll
match_stored_roll(guild, userid, name, mods, sign, comment) ==
    /\ UNCHANGED macros
    /\ IF Selected(macros, guild, userid, name) = {} THEN
            \* __find_similar_macro: a stored name that is similar, if any
            \/ mlast' = Message("use", name, mods, "not found")
            \/ /\ \E r \in macros : r.guild = guild /\ r.user = userid
               /\ mlast' = Message("use", name, mods, "did you mean")
       ELSE
            \* fetchone(): one of the rows selected
            \E compound \in Selected(macros, guild, userid, name) :
                IF Len(mods) > 0
                THEN mlast' = modified_roll(name, mods, sign, compound, comment)
                ELSE mlast' = Returned("use", name, mods, "roll", "", compound.syntax,
                                       kept_comment(compound.comment, comment),
                                       <<>>)

\* query_saved_rolls(guild, userid, command), the command's syntax and
\* comment (<<>>: none) given
query_saved_rolls(guild, userid, syntax, comment) ==
    LET rule == dispatch(syntax) IN
    IF rule = "store" THEN
        IF valid_definition(storex(syntax).rest)
        THEN store_roll(guild, userid, storex(syntax).name, storex(syntax).rest, comment)
        ELSE /\ mlast' = Message("define", storex(syntax).name, storex(syntax).rest,
                                 "invalid roll syntax")
             /\ UNCHANGED macros
    ELSE IF rule = "comment" THEN
        update_stored_comment(guild, userid, commentx(syntax).name, commentx(syntax).rest)
    ELSE IF rule = "use" THEN
        match_stored_roll(guild, userid, usex(syntax).name, usex(syntax).rest,
                          usex(syntax).sign, comment)
    ELSE IF rule = "delete" THEN
        delete_stored_roll(guild, userid, deletex(syntax).name)
    ELSE IF rule = "multiword" THEN
        /\ mlast' = Message("multiword", <<>>, syntax, "macro names can't contain spaces")
        /\ UNCHANGED macros
    ELSE
        /\ mlast' = Message("unknown", <<>>, syntax, "come again")
        /\ UNCHANGED macros

\* store_roll of the older handler (tzimisce/RollDB.py): the name is
\* compared as it is written, and the UPDATE names the user and the name
\* but no guild
legacy_store_roll(guild, userid, name, syntax) ==
    IF ~is_roll_stored_exact(macros, guild, userid, name) THEN
        /\ Cardinality(macros) < MaxMacros
        /\ macros' = macros \cup {Row(guild, userid, name, syntax, <<>>)}
        /\ mlast' = Message("define", name, syntax, "saved")
    ELSE
        /\ macros' = { IF r.user = userid /\ r.name = name
                       THEN [r EXCEPT !.syntax = syntax]
                       ELSE r : r \in macros }
        /\ mlast' = Message("define", name, syntax, "updated syntax")

\* the guild and the user a command comes from
Owner(guild, userid) == [guild |-> guild, user |-> userid]

MacroInit ==
    /\ macros = {}
    /\ mlast = Message("none", <<>>, <<>>, "none")
    /\ mcmd = <<>>
    /\ mwho = Owner(Guild, User)

-----------------------------------------------------------------------------
(* The guild's settings (storyteller/databases/settings.py) and the pool   *)
(* roll a command comes to                                                 *)

InitialDiff == 6    \* default_params[self.DEFAULT_DIFF] = 6
MinDiff == 2        \* if not 2 <= new_value <= 10
MaxDiff == 10

Rejected == [ok |-> FALSE, value |-> 0]

validated_parameter_any_int(new_value) ==
    IF IsIntText(new_value) THEN [ok |-> TRUE, value |-> ParseInt(new_value)]
    ELSE Rejected

\* __validated_parameter(DEFAULT_DIFF, new_value): the integer, or ValueError
validated_parameter(new_value) ==
    IF IsIntText(new_value) /\ ParseInt(new_value) \in MinDiff..MaxDiff
    THEN [ok |-> TRUE, value |-> ParseInt(new_value)]
    ELSE Rejected

\* no pool roll: the command was no roll
NoRoll == [status |-> "none", pool |-> 0, diff |-> 0]

\* the pool roll of a syntax under the guild's default difficulty: the dice
\* are drawn for a pool of one or more at a difficulty in 2..10, a pool roll
\* outside that is rejected before any die is drawn, and a text that is no
\* pool roll draws no pool
pool_roll(syntax, default) ==
    IF ~IsPoolRoll(syntax) THEN [status |-> "no pool roll", pool |-> 0, diff |-> 0]
    ELSE LET pool == NatOf(Split(syntax)[1])
             diff == IF Len(Split(syntax)) = 2 THEN NatOf(Split(syntax)[2]) ELSE default
         IN [status |-> IF pool >= 1 /\ diff \in MinDiff..MaxDiff
                        THEN "rolled" ELSE "rejected",
             pool |-> pool, diff |-> diff]

\* the roll a macro command comes to: what it returned goes on to the
\* parser and the evaluator when it is roll syntax
roll_of(returned, default) ==
    IF returned.kind = "roll" THEN pool_roll(returned.syntax, default) ELSE NoRoll

\* SettingsDB.update(guild, DEFAULT_DIFF, value)
update_default_diff(value) ==
    /\ default_diff' = IF validated_parameter(value).ok
                       THEN validated_parameter(value).value
                       ELSE default_diff
    /\ proll' = NoRoll

SettingsInit ==
    /\ default_diff = InitialDiff
    /\ proll = NoRoll

-----------------------------------------------------------------------------
(* The dice evaluator: a pool roll scored under the rules of a guild.  The *)
(* dice are an input: the faces of the pool in the order drawn, and the    *)
(* faces of the dice drawn for exploding tens in the order drawn.          *)

MaxPool == 2        \* the largest pool evaluated
MaxExtra == 2       \* the most dice drawn for exploding tens

\* the rules of one evaluation: the guild's toggles and the roll's specialty
Toggles == [xpl_always : BOOLEAN, xpl_spec : BOOLEAN, specialty : BOOLEAN,
            double : {"never", "always", "specialty"},
            nullify_ones : BOOLEAN, no_botch : BOOLEAN]

\* a ten explodes: explode-always, or a specialty under explode-on-specialty
explodes(rules) == rules.xpl_always \/ (rules.specialty /\ rules.xpl_spec)

\* a ten counts double: always, or on a specialty
doubles(rules) ==
    \/ rules.double = "always"
    \/ rules.double = "specialty" /\ rules.specialty

ones_always_subtract(f, rules) == IF f = 1 THEN 1 ELSE 0

\* the success a face of 1 takes away: none under nullify-ones
ones_subtract(f, rules) == IF f = 1 /\ ~rules.nullify_ones THEN 1 ELSE 0

\* the successes of one face at a difficulty
score(f, d, rules) ==
    (IF f >= d THEN (IF f = D10 /\ doubles(rules) THEN 2 ELSE 1) ELSE 0)
        - ones_subtract(f, rules)

Unfinished == [successes |-> 0, ones |-> 0, faces |-> <<>>, exploded |-> 0,
               left |-> <<>>, complete |-> FALSE]

\* the dice still to score, first to last; a ten that explodes draws the
\* next of the extra dice, which is scored and explodes by the same rule.
\* complete: no ten was left waiting for a die that extra does not hold
RECURSIVE evaluate(_, _, _, _)
evaluate(faces, extra, d, rules) ==
    IF faces = <<>>
    THEN [successes |-> 0, ones |-> 0, faces |-> <<>>, exploded |-> 0,
          left |-> extra, complete |-> TRUE]
    ELSE LET f == Head(faces)
             xpl == f = D10 /\ explodes(rules)
         IN  IF xpl /\ extra = <<>> THEN Unfinished
             ELSE LET rest == IF xpl
                              THEN evaluate(<<Head(extra)>> \o Tail(faces),
                                            Tail(extra), d, rules)
                              ELSE evaluate(Tail(faces), extra, d, rules)
                  IN  [successes |-> score(f, d, rules) + rest.successes,
                       ones |-> (IF f = 1 THEN 1 ELSE 0) + rest.ones,
                       faces |-> <<f>> \o rest.faces,
                       exploded |-> (IF xpl THEN 1 ELSE 0) + rest.exploded,
                       left |-> rest.left,
                       complete |-> rest.complete]

botch_without_ones(successes, ones, rules) == successes <= 0 /\ ~rules.no_botch

\* a botch: no net success, a natural 1 among the dice, botches not disabled
is_botch(successes, ones, rules) == successes <= 0 /\ ones > 0 /\ ~rules.no_botch

NoEvaluation == [kind |-> "none"]

\* the result of a pool roll
RollResult(dice, extra, d, rules) ==
    LET r == evaluate(dice, extra, d, rules)
    IN  [kind |-> "pool", dice |-> dice, extra |-> extra, diff |-> d, rules |-> rules,
         faces |-> r.faces, successes |-> r.successes, ones |-> r.ones,
         exploded |-> r.exploded,
         botch |-> is_botch(r.successes, r.ones, rules)]

\* the terms of an arithmetic roll, NdM(+NdM|+N)*: n dice of m faces, or
\* the flat integer n (m = 0)
RECURSIVE Terms(_)
Terms(s) ==
    LET r == LStrip(s) IN
    IF Len(r) = 0 THEN <<>>
    ELSE IF r[1] = "+" THEN Terms(Tail(r))
    ELSE LET t == SubSeq(r, 1, TermEnd(r))
             n == DigitsEnd(t)
         IN  <<[n |-> NatOf(SubSeq(t, 1, n)),
                m |-> IF n < Len(t) THEN NatOf(Drop(t, n + 1)) ELSE 0]>>
                 \o Terms(Drop(r, TermEnd(r)))

\* the number of dice the terms draw
RECURSIVE DiceDrawn(_)
DiceDrawn(terms) ==
    IF terms = <<>> THEN 0
    ELSE (IF Head(terms).m > 0 THEN Head(terms).n ELSE 0) + DiceDrawn(Tail(terms))

\* roll_from_string: the values the roll adds up, term by term: the dice of
\* an NdM term as drawn, a flat integer itself
RECURSIVE roll_values(_, _)
roll_values(terms, dice) ==
    IF terms = <<>> THEN <<>>
    ELSE LET t == Head(terms) IN
         IF t.m > 0
         THEN SubSeq(dice, 1, t.n) \o roll_values(Tail(terms), Drop(dice, t.n))
         ELSE <<t.n>> \o roll_values(Tail(terms), dice)

roll_from_string(syntax, dice) == roll_values(Terms(syntax), dice)

\* sum(rolls)
RECURSIVE Sum(_)
Sum(rolls) == IF rolls = <<>> THEN 0 ELSE Head(rolls) + Sum(Tail(rolls))

\* "+".join([str(roll) for roll in rolls])
RECURSIVE JoinPlus(_)
JoinPlus(rolls) ==
    IF rolls = <<>> THEN <<>>
    ELSE IF Len(rolls) = 1 THEN IntStr(rolls[1])
    ELSE IntStr(rolls[1]) \o <<"+">> \o JoinPlus(Tail(rolls))

\* __traditional_roll: the result, and the description when it is shown
traditional_roll(syntax, dice) ==
    LET rolls == roll_from_string(syntax, dice)
    IN  [kind |-> "traditional", syntax |-> syntax, dice |-> dice,
         result |-> IntStr(Sum(rolls)),
         described |-> Len(rolls) > 1,
         description |-> IF Len(rolls) > 1 THEN JoinPlus(rolls) ELSE <<>>]

DiceInit == droll = NoEvaluation


-----------------------------------------------------------------------------
(* The settings of every guild: the GuildSettings table and the cache      *)
(* SettingsDB keeps of it (storyteller/databases/settings.py), the prefix  *)
(* of the Guilds table and the prefixes masquerade.py keeps                *)

MaxUpdates == 4     \* the most settings commands of a behaviour

Guilds == {1, 2}

Keys == {"default_diff", "prefix", "xpl_always", "nullify_ones", "no_botch", "chronicles"}

\* no row of the guild; no dict of the guild's own
NoRow == [row |-> FALSE]
Shared == [own |-> FALSE]

\* Prefix NULL, prefix None: no prefix
NoPrefix == <<>>

\* the columns of a new row: DEFAULT 6, DEFAULT FALSE, Prefix NULL
DefaultRow ==
    [default_diff |-> InitialDiff, prefix |-> NoPrefix, xpl_always |-> FALSE,
     nullify_ones |-> FALSE, no_botch |-> FALSE, chronicles |-> FALSE]

\* val.lower()
LowerText(val) ==
    [i \in DOMAIN val |-> CASE val[i] = "T" -> "t" [] val[i] = "F" -> "f"
                            [] OTHER -> Lower(val[i])]

TrueWords == { <<"y">>, <<"y", "e", "s">>, <<"t">>, <<"t", "r", "u", "e">>,
               <<"o", "n">>, <<"1">> }
FalseWords == { <<"n">>, <<"n", "o">>, <<"f">>, <<"f", "a", "l", "s", "e">>,
                <<"o", "f", "f">>, <<"0">> }

\* str(value) of a bool
BoolStr(b) == IF b THEN <<"T", "r", "u", "e">> ELSE <<"F", "a", "l", "s", "e">>

\* bool(strtobool(new_value)), or ValueError
strtobool(val) ==
    IF LowerText(val) \in TrueWords THEN [ok |-> TRUE, value |-> TRUE]
    ELSE IF LowerText(val) \in FalseWords THEN [ok |-> TRUE, value |-> FALSE]
    ELSE Rejected

\* __validated_parameter(key, new_value)
validated(key, new_value) ==
    IF key \notin Keys THEN Rejected
    ELSE IF key = "default_diff" THEN validated_parameter(new_value)
    ELSE IF key = "prefix" THEN [ok |-> TRUE, value |-> new_value]
    ELSE strtobool(new_value)

\* the store and the cache together, as update reads and writes them
Settings(store, cache, default) == [store |-> store, cache |-> cache, default |-> default]

\* self.__all_settings[guild]: the guild's own dict, or default_params
settings_of(st, guild) ==
    IF st.cache[guild] = Shared THEN st.default ELSE st.cache[guild]

written_store_only(st, guild, key, value) ==
    [st EXCEPT !.store = IF st.store[guild] = NoRow THEN st.store
                         ELSE [st.store EXCEPT ![guild][key] = value]]

\* UPDATE GuildSettings SET key=value WHERE ID=guild;
\* self.__all_settings[guild][key] = value
written(st, guild, key, value) ==
    LET stored == IF st.store[guild] = NoRow THEN st.store
                  ELSE [st.store EXCEPT ![guild][key] = value]
    IN  IF st.cache[guild] = Shared
        THEN [st EXCEPT !.store = stored, !.default = [st.default EXCEPT ![key] = value]]
        ELSE [st EXCEPT !.store = stored, !.cache = [st.cache EXCEPT ![guild][key] = value]]

\* update of a key that sets no other
updated_one(st, guild, key, new_value) ==
    IF validated(key, new_value).ok
    THEN written(st, guild, key, validated(key, new_value).value)
    ELSE st

chronicles_without_no_botch(st, guild, value) ==
    LET diff == updated_one(st, guild, "default_diff", IF value THEN <<"8">> ELSE <<"6">>)
        xpl == updated_one(diff, guild, "xpl_always", BoolStr(value))
    IN  updated_one(xpl, guild, "nullify_ones", BoolStr(value))

\* the four settings chronicles mode sets, one after the other
chronicles(st, guild, value) ==
    LET diff == updated_one(st, guild, "default_diff", IF value THEN <<"8">> ELSE <<"6">>)
        xpl == updated_one(diff, guild, "xpl_always", BoolStr(value))
        ones == updated_one(xpl, guild, "nullify_ones", BoolStr(value))
    IN  updated_one(ones, guild, "no_botch", BoolStr(value))

\* SettingsDB.update(guild, key, value): the store and the cache after it
updated(st, guild, key, new_value) ==
    IF ~validated(key, new_value).ok THEN st
    ELSE IF key = "chronicles"
         THEN chronicles(updated_one(st, guild, key, new_value), guild,
                         validated(key, new_value).value)
         ELSE updated_one(st, guild, key, new_value)

\* settings_for_guild(guild)
settings_for_guild(guild) == settings_of(Settings(gstore, gcache, gdefault), guild)

\* a settings command and its outcome
Setting(op, guild, key, value, ok, msg) ==
    [op |-> op, guild |-> guild, key |-> key, value |-> value, ok |-> ok, msg |-> msg]

\* SettingsDB.update as a command
update(guild, key, new_value) ==
    LET st == updated(Settings(gstore, gcache, gdefault), guild, key, new_value)
    IN  /\ gstore' = st.store
        /\ gcache' = st.cache
        /\ gdefault' = st.default
        /\ glast' = Setting("update", guild, key, new_value,
                            validated(key, new_value).ok,
                            IF validated(key, new_value).ok THEN "set" ELSE "ValueError")
        /\ UNCHANGED <<pstore, custom_prefixes>>

\* a guild is joined: add_guild of SettingsDB and of RollDB, a row in each
\* table with the columns' defaults; no cache is told
add_guild(guild) ==
    /\ gstore' = [gstore EXCEPT ![guild] = DefaultRow]
    /\ pstore' = [pstore EXCEPT ![guild] = [prefix |-> NoPrefix]]
    /\ glast' = Setting("add_guild", guild, "none", <<>>, TRUE, "joined")
    /\ UNCHANGED <<gcache, gdefault, custom_prefixes>>

\* get_all_prefixes(): the prefix of each row of the Guilds table, none
\* for a guild without a row
get_all_prefixes(guilds) ==
    [g \in Guilds |-> IF guilds[g] = NoRow THEN NoPrefix ELSE guilds[g].prefix]

\* update_prefix(guild, prefix)
update_prefix(guilds, guild, prefix) ==
    IF guilds[guild] = NoRow THEN guilds ELSE [guilds EXCEPT ![guild].prefix = prefix]

\* set_prefix: the prefix is stored and the prefixes are fetched anew
\* before the argument is looked at
set_prefix(guild, arg) ==
    /\ pstore' = update_prefix(pstore, guild, arg)
    /\ custom_prefixes' = get_all_prefixes(pstore')
    /\ glast' = Setting("set_prefix", guild, "prefix", arg, arg # NoPrefix,
                        IF arg = NoPrefix THEN "You must supply a new prefix!"
                        ELSE "Setting the prefix")
    /\ UNCHANGED <<gstore, gcache, gdefault>>

\* reset_prefix
reset_prefix(guild) ==
    /\ pstore' = update_prefix(pstore, guild, NoPrefix)
    /\ custom_prefixes' = get_all_prefixes(pstore')
    /\ glast' = Setting("reset_prefix", guild, "prefix", NoPrefix, TRUE,
                        "Reset the command prefix")
    /\ UNCHANGED <<gstore, gcache, gdefault>>

\* the state after start-up when the guilds of loaded had their rows:
\* __fetch_all_settings gives each row its own dict, get_all_prefixes
\* fetches the prefixes
Loaded(loaded) ==
    /\ gstore = [g \in Guilds |-> IF g \in loaded THEN DefaultRow ELSE NoRow]
    /\ gcache = [g \in Guilds |-> IF g \in loaded THEN DefaultRow ELSE Shared]
    /\ gdefault = DefaultRow
    /\ pstore = [g \in Guilds |-> IF g \in loaded THEN [prefix |-> NoPrefix] ELSE NoRow]
    /\ custom_prefixes = [g \in Guilds |-> NoPrefix]
    /\ glast = Setting("none", 0, "none", <<>>, TRUE, "none")
    /\ gcount = 0

GuildIdle == Loaded({})

-----------------------------------------------------------------------------
(* standard_roll: the comment of a command (masquerade.py)                 *)

\* s.index('#'), from 1; 0: ValueError
RECURSIVE index(_)
index(s) ==
    IF Len(s) = 0 THEN 0
    ELSE IF s[1] = "#" THEN 1
    ELSE IF index(Tail(s)) = 0 THEN 0 ELSE 1 + index(Tail(s))

\* what split_comment returns: the syntax, and the comment unless it is None
Parts(syntax, comment, commented) ==
    [syntax |-> syntax, comment |-> comment, commented |-> commented]

\* s.split('#', 1) of a text with a '#'
split_once(s) == Parts(SubSeq(s, 1, index(s) - 1), Drop(s, index(s)), TRUE)

split_candidate_raw(raw, clean) == raw

\* the clean text when its '#' is where the raw text has it
split_candidate(raw, clean) == IF index(raw) = index(clean) THEN clean ELSE raw

\* split_comment(raw, clean)
split_comment(raw, clean) ==
    IF index(raw) = 0 \/ index(clean) = 0 THEN Parts(raw, <<>>, FALSE)
    ELSE split_once(split_candidate(raw, clean))

NoCommand == [kind |-> "none"]

CommandInit == command = NoCommand

-----------------------------------------------------------------------------
(* Reactions to a message: the suggestion of a macro (masquerade.py)       *)

MaxReactions == 2   \* the most reaction events of a behaviour

Bot == "bot"                \* bot.user
ThumbsUp == "thumbsup"      \* the emoji of the agreement
Check == "check"            \* the emoji the bot marks a rolled suggestion with
Heart == "heart"            \* any other emoji
NoSuggestion == <<>>        \* return None

\* a message: who wrote it, whether it has embeds, the users it mentions,
\* the macro its text suggests (suggestx.search(message.content)), and the
\* emoji of its reactions
Posted(author, embeds, mentions, suggestion, reactions) ==
    [author |-> author, embeds |-> embeds, mentions |-> mentions,
     suggestion |-> suggestion, reactions |-> reactions]

\* suggestion_to_roll(reaction, user), the reaction's message and emoji given
suggestion_to_roll(message, emoji, user) ==
    IF emoji = ThumbsUp /\ message.author = Bot THEN
        IF Check \in message.reactions THEN NoSuggestion
        ELSE IF ~message.embeds /\ user \in message.mentions THEN message.suggestion
        ELSE NoSuggestion
    ELSE NoSuggestion

\* a reaction event and the place of its handler
Reacting(pc, user, emoji, suggestion) ==
    [pc |-> pc, user |-> user, emoji |-> emoji, suggestion |-> suggestion]

Waiting == Reacting("none", "none", "none", NoSuggestion)

\* on_reaction_add, to its first await: the reaction is on the message, and
\* suggestion_to_roll decides whether the handler goes on
on_reaction_add(t, user, emoji) ==
    LET message == [rmsg EXCEPT !.reactions = @ \cup {emoji}]
        suggestion == suggestion_to_roll(message, emoji, user)
    IN  /\ rmsg' = message
        /\ rtask' = [rtask EXCEPT ![t] =
                        Reacting(IF suggestion = NoSuggestion THEN "done" ELSE "handle_command",
                                 user, emoji, suggestion)]
        /\ UNCHANGED rolled

\* await bot.get_context, await handle_command: the suggestion is rolled for
\* the user of the reaction
handle_command(t) ==
    /\ rolled' = Append(rolled, [user |-> rtask[t].user, emoji |-> rtask[t].emoji,
                                 suggestion |-> rtask[t].suggestion])
    /\ rtask' = [rtask EXCEPT ![t].pc = "add_reaction"]
    /\ UNCHANGED rmsg

\* await reaction.message.add_reaction: the message is marked as rolled
add_reaction(t) ==
    /\ rmsg' = [rmsg EXCEPT !.reactions = @ \cup {Check}]
    /\ rtask' = [rtask EXCEPT ![t].pc = "done"]
    /\ UNCHANGED rolled

ReactionIdle ==
    /\ rmsg = Posted(Bot, FALSE, {}, NoSuggestion, {})
    /\ rtask = [t \in 1..MaxReactions |-> Waiting]
    /\ rolled = <<>>

-----------------------------------------------------------------------------
(* Initiative: one roll (tzimisce/initiative/initiative.py)                *)

Characters == {"Alice", "Bob"}
Actions == {"bite"}
Faces == {4, 7}             \* the faces drawn in the model, among 1..D10

\* the modifier texts a command carries: unsigned rolls a new initiative,
\* signed augments an existing one, "x" is not a number
ModTexts == { <<"3">>, <<"+", "2">>, <<"-", "2">>, <<"x">> }

\* Initiative.__init__
Initiative(name, mod, die) ==
    [name |-> name, mod |-> mod, die |-> die, action |-> None]

\* Initiative.init
Score(e) == e.mod + e.die

LtByMod(a, b) == a.mod < b.mod

LeOrEqual(a, b) == Score(a) <= Score(b)

\* Initiative.__lt__
Lt(a, b) == Score(a) < Score(b)

RerollKeepAction(e, die) == [e EXCEPT !.die = die]

\* Initiative.reroll
Reroll(e, die) == [e EXCEPT !.die = die, !.action = None]

-----------------------------------------------------------------------------
(* InitiativeManager: the ordered entries of one channel                   *)

\* the place of e in s: after every entry that is not less than it
RECURSIVE InsertDesc(_, _)
InsertDesc(e, s) ==
    IF Len(s) = 0 THEN <<e>>
    ELSE IF Lt(Head(s), e) THEN <<e>> \o s
    ELSE <<Head(s)>> \o InsertDesc(e, Tail(s))

\* sort(reverse=True): descending, entries of equal score in their old order
RECURSIVE SortDesc(_)
SortDesc(s) ==
    IF Len(s) = 0 THEN <<>>
    ELSE InsertDesc(s[Len(s)], SortDesc(SubSeq(s, 1, Len(s) - 1)))

Matches(s, c) == { i \in 1..Len(s) : s[i].name = c }

has_character(s, c) == Matches(s, c) # {}

FirstMatch(s, c) == CHOOSE i \in Matches(s, c) : \A j \in Matches(s, c) : i <= j

add_init(s, c, mod, die) == SortDesc(Append(s, Initiative(c, mod, die)))

\* the entry modify_init returns
modified_init(s, c, delta) ==
    LET i == FirstMatch(s, c) IN [s[i] EXCEPT !.mod = s[i].mod + delta]

modify_init(s, c, delta) ==
    SortDesc([s EXCEPT ![FirstMatch(s, c)] = modified_init(s, c, delta)])

RECURSIVE Without(_, _)
Without(s, c) ==
    IF Len(s) = 0 THEN <<>>
    ELSE IF Head(s).name = c THEN Without(Tail(s), c)
    ELSE <<Head(s)>> \o Without(Tail(s), c)

remove_init(s, c) == Without(s, c)

declare_action(s, c, action) ==
    [s EXCEPT ![FirstMatch(s, c)].action = action]

add_celerity(s, c, die) ==
    SortDesc(Append(s, Initiative(c, s[FirstMatch(s, c)].mod, die)))

add_celerities_short(s, c, dice) ==
    IF Len(dice) <= 1 THEN s ELSE add_celerity(s, c, Head(dice))

\* for _ in range(parsed.celerity): manager.add_celerity(character)
RECURSIVE add_celerities(_, _, _)
add_celerities(s, c, dice) ==
    IF Len(dice) = 0 THEN s
    ELSE add_celerities(add_celerity(s, c, Head(dice)), c, Tail(dice))

reroll_all(s, dice) == SortDesc([i \in 1..Len(s) |-> Reroll(s[i], dice[i])])

count(s) == Len(s)

-----------------------------------------------------------------------------
(* The table registry of storyteller.initiative, for one channel           *)

Absent == [exists |-> FALSE, entries |-> <<>>]

\* get_table: the registered manager, or None
get_table(t) == t.exists

\* add_table
add_table(entries) == [exists |-> TRUE, entries |-> entries]

\* remove_table
remove_table == Absent

-----------------------------------------------------------------------------
(* The persisted rows: one per (guild, channel, character)                 *)

NoRows == {}

RowOf(r, c) == { x \in r : x.name = c }

set_initiative(r, c, mod, die) ==
    (r \ RowOf(r, c)) \cup
        { [name |-> c, mod |-> mod, die |-> die,
           action |-> IF RowOf(r, c) = {} THEN None
                      ELSE (CHOOSE x \in RowOf(r, c) : TRUE).action] }

remove_initiative(r, c) == r \ RowOf(r, c)

set_initiative_action(r, c, action) ==
    { IF x.name = c THEN [x EXCEPT !.action = action] ELSE x : x \in r }

\* every entry of the table written back, in table order
RECURSIVE set_initiatives(_, _)
set_initiatives(r, s) ==
    IF Len(s) = 0 THEN r
    ELSE set_initiatives(set_initiative(r, Head(s).name, Head(s).mod, Head(s).die),
                         Tail(s))

-----------------------------------------------------------------------------
(* The command handlers (storyteller/parse/initiative.py)                  *)

Abs(n) == IF n < 0 THEN 0 - n ELSE n

\* the Response: the command, the character it was about, the number of
\* entries the table held before it, and the message or embed sent
Said(op, c, n, msg) == [op |-> op, char |-> c, n |-> n, msg |-> msg]

character_always_author(author, cname) == author

\* character_name or ctx.author.display_name
character_of(author, cname) == IF cname = None THEN author ELSE cname

is_augmenting_minus_only(mod) == mod[1] = "-"

\* mod[0] == "-" or mod[0] == "+"
is_augmenting(mod) == mod[1] = "-" \/ mod[1] = "+"

table_kept_after_removal(t, left) == [t EXCEPT !.entries = left]

\* if manager.count == 0: remove_table(channel)
table_after_removal(t, left) ==
    IF count(left) = 0 THEN remove_table ELSE [t EXCEPT !.entries = left]

declared_entries_skipped(s, c, action) == s

\* if parsed.action: manager.declare_action(character, action)
declared_entries(s, c, action) ==
    IF action = None THEN s ELSE declare_action(s, c, action)

\* initiative(ctx, mod, character_name): display, roll a new initiative, or
\* augment an old one.  mod is the text given (<<>>: none), cname the name
\* given (None: none), author the display name of the sender.
initiative(author, mod, cname) ==
    LET c == character_of(author, cname)
        manager == IF get_table(table) THEN table.entries ELSE <<>>
        n == count(table.entries)
    IN
    IF Len(mod) = 0 THEN
        \* not adding: show the table, or the usage message
        /\ last' = Said("show", author, n,
                        IF get_table(table) THEN "display" ELSE "usage")
        /\ UNCHANGED <<table, rows, present>>
    ELSE IF ~IsIntText(mod) THEN
        \* int(mod) raises ValueError
        /\ last' = Said("roll", c, n, "usage")
        /\ UNCHANGED <<table, rows, present>>
    ELSE IF ~is_augmenting(mod) THEN
        \* rolling a new initiative
        /\ count(manager) < MaxEntries
        /\ \E die \in Faces :
             /\ table' = add_table(add_init(manager, c, ParseInt(mod), die))
             /\ rows' = set_initiative(rows, c, ParseInt(mod), die)
        /\ present' = present \cup {c}
        /\ last' = Said("add", c, n, "rolled")
    ELSE IF ~has_character(manager, c) THEN
        /\ last' = Said("modify", c, n, "nothing to modify")
        /\ UNCHANGED <<table, rows, present>>
    ELSE
        \* augmenting the modifier in place
        LET init == modified_init(manager, c, ParseInt(mod)) IN
        /\ Abs(init.mod) <= MaxMod
        /\ table' = [table EXCEPT !.entries = modify_init(manager, c, ParseInt(mod))]
        /\ rows' = set_initiative(rows, c, init.mod, init.die)
        /\ last' = Said("modify", c, n, "modified")
        /\ UNCHANGED present

\* initiative_removal(ctx, character_name)
initiative_removal(author, cname) ==
    LET character == character_of(author, cname)
        n == count(table.entries)
    IN
    IF ~get_table(table) THEN
        /\ last' = Said("remove", character, n, "not running")
        /\ UNCHANGED <<table, rows, present>>
    ELSE IF ~has_character(table.entries, character) THEN
        /\ last' = Said("remove", character, n, "not in initiative")
        /\ UNCHANGED <<table, rows, present>>
    ELSE
        LET left == remove_init(table.entries, character) IN
        /\ rows' = remove_initiative(rows, character)
        /\ table' = table_after_removal(table, left)
        /\ present' = present \ {character}
        /\ last' = Said("remove", character, n,
                        IF count(left) = 0 THEN "removed, table cleared" ELSE "removed")

\* initiative_declare(ctx, args), args parsed to an action (None: none), a
\* character (None: none) and a celerity count (0: none)
initiative_declare(author, action, cname, celerity) ==
    LET character == character_of(author, cname)
        n == count(table.entries)
    IN
    IF action = None /\ celerity = 0 THEN
        /\ last' = Said("declare", character, n, "need an action")
        /\ UNCHANGED <<table, rows, present>>
    ELSE IF ~get_table(table) THEN
        \* AttributeError on None
        /\ last' = Said("declare", character, n, "not set")
        /\ UNCHANGED <<table, rows, present>>
    ELSE IF ~has_character(table.entries, character) THEN
        \* NameError
        /\ last' = Said("declare", character, n, "not in the table")
        /\ UNCHANGED <<table, rows, present>>
    ELSE
        LET declared == declared_entries(table.entries, character, action) IN
        /\ count(declared) + celerity <= MaxEntries
        /\ \E dice \in [1..celerity -> Faces] :
             table' = [table EXCEPT !.entries = add_celerities(declared, character, dice)]
        /\ rows' = IF action = None THEN rows
                   ELSE set_initiative_action(rows, character, action)
        /\ last' = Said("declare", character, n,
                        IF action = None THEN "celerity" ELSE "declared")
        /\ UNCHANGED present

\* the reroll command: every entry rerolled and written back
initiative_reroll(author) ==
    IF ~get_table(table) THEN
        /\ last' = Said("reroll", author, 0, "usage")
        /\ UNCHANGED <<table, rows, present>>
    ELSE
        /\ \E dice \in [1..count(table.entries) -> Faces] :
             /\ table' = [table EXCEPT !.entries = reroll_all(table.entries, dice)]
             /\ rows' = set_initiatives(rows, reroll_all(table.entries, dice))
        /\ last' = Said("reroll", author, count(table.entries), "display")
        /\ UNCHANGED present

\* the clear command
initiative_clear(author) ==
    /\ table' = remove_table
    /\ rows' = NoRows
    /\ present' = {}
    /\ last' = Said("clear", author, count(table.entries),
                    IF get_table(table) THEN "cleared" ELSE "not running")

MaxCelerity == 1    \* celerity actions one command asks for at most

\* the sender's display name, and the names a command may give
Author == "Alice"
Given == {None, "Bob"}

InitiativeInit ==
    /\ table = Absent
    /\ rows = NoRows
    /\ present = {}
    /\ last = Said("none", None, 0, "none")

\* no command in flight
ConcIdle ==
    /\ cobj = <<>>
    /\ creg = 0
    /\ ctask = <<>>
    /\ cinit = Absent

Init ==
    /\ InitiativeInit /\ ConcIdle /\ MacroInit /\ SettingsInit /\ DiceInit /\ GuildIdle
    /\ CommandInit /\ ReactionIdle

Roll == \E m \in ModTexts \cup {<<>>}, c \in Given :
            initiative(Author, m, c) /\ UNCHANGED <<cvars, mvars, svars, xvars>>

Remove == \E c \in Given : initiative_removal(Author, c) /\ UNCHANGED <<cvars, mvars, svars, xvars>>

Declare == \E act \in Actions \cup {None}, c \in Given, n \in 0..MaxCelerity :
                initiative_declare(Author, act, c, n) /\ UNCHANGED <<cvars, mvars, svars, xvars>>

RerollAll == initiative_reroll(Author) /\ UNCHANGED <<cvars, mvars, svars, xvars>>

Clear == initiative_clear(Author) /\ UNCHANGED <<cvars, mvars, svars, xvars>>

Next == Roll \/ Remove \/ Declare \/ RerollAll \/ Clear

Spec == Init /\ [][Next]_vars

-----------------------------------------------------------------------------
(* Two commands in flight on one channel.  A handler is cut at its calls   *)
(* on the registry: get_table, the work on the manager it got, add_table   *)
(* or remove_table.  The managers are objects: a handler works on the one  *)
(* it got, registered or not.                                              *)

Tasks == {1, 2}

\* the commands in flight: roll 3, augment by +2 or -2, remove, reroll
Commands ==
    [op : {"add"}, char : Characters, mod : {3}, die : Faces]
        \cup [op : {"modify"}, char : Characters, mod : {-2, 2}, die : {0}]
        \cup [op : {"remove"}, char : Characters, mod : {0}, die : {0}]
        \cup [op : {"reroll"}, char : {Author}, mod : {0}, die : Faces]

\* the tables the commands may find
StartTables ==
    { Absent,
      add_table(<<Initiative("Alice", 3, 7)>>),
      add_table(<<Initiative("Alice", 3, 7), Initiative("Bob", 3, 4)>>) }

\* the object a task's InitiativeManager() creates
NewObject(t) == 1 + t

\* the table of the channel, as get_table gives it
Registered == IF creg = 0 THEN Absent ELSE add_table(cobj[creg])

\* every entry rerolled with the face drawn
SameFace(s, die) == [i \in 1..Len(s) |-> die]

may_step_preempted(t) == TRUE

\* the handlers are plain functions called from the event loop: one that has
\* started runs to its return before another starts
may_step(t) == \A u \in Tasks \ {t} : ctask[u].pc \in {"start", "done"}

ConcInit ==
    /\ InitiativeInit
    /\ MacroInit
    /\ SettingsInit
    /\ DiceInit
    /\ GuildIdle
    /\ CommandInit
    /\ ReactionIdle
    /\ cinit \in StartTables
    /\ cobj = [o \in 1..3 |-> IF o = 1 THEN cinit.entries ELSE <<>>]
    /\ creg = IF cinit.exists THEN 1 ELSE 0
    /\ ctask \in [Tasks -> [pc : {"start"}, cmd : Commands, mgr : {0}]]

\* manager = storyteller.initiative.get_table(ctx.channel.id)
GetTable(t) ==
    /\ ctask[t].pc = "start"
    /\ may_step(t)
    /\ ctask' = [ctask EXCEPT ![t].pc = "got", ![t].mgr = creg]
    /\ UNCHANGED <<cobj, creg, cinit>>

\* the work on the manager: add_init, modify_init, remove_init or reroll
Mutate(t) ==
    LET cmd == ctask[t].cmd
        got == ctask[t].mgr
        \* if not manager: manager = InitiativeManager()
        m == IF got = 0 THEN NewObject(t) ELSE got
    IN
    /\ ctask[t].pc = "got"
    /\ may_step(t)
    /\ UNCHANGED <<creg, cinit>>
    /\ CASE cmd.op = "add" ->
              /\ cobj' = [cobj EXCEPT ![m] = add_init(cobj[m], cmd.char, cmd.mod, cmd.die)]
              /\ ctask' = [ctask EXCEPT ![t].pc = "mutated", ![t].mgr = m]
         [] cmd.op = "modify" ->
              /\ cobj' = IF has_character(cobj[m], cmd.char)
                         THEN [cobj EXCEPT ![m] = modify_init(cobj[m], cmd.char, cmd.mod)]
                         ELSE cobj
              /\ ctask' = [ctask EXCEPT ![t].pc = "done", ![t].mgr = m]
         [] cmd.op = "remove" ->
              IF got # 0 /\ has_character(cobj[got], cmd.char)
              THEN /\ cobj' = [cobj EXCEPT ![got] = remove_init(cobj[got], cmd.char)]
                   /\ ctask' = [ctask EXCEPT ![t].pc = "mutated"]
              ELSE /\ cobj' = cobj
                   /\ ctask' = [ctask EXCEPT ![t].pc = "done"]
         [] cmd.op = "reroll" ->
              /\ cobj' = IF got = 0 THEN cobj
                         ELSE [cobj EXCEPT ![got] =
                                 reroll_all(cobj[got], SameFace(cobj[got], cmd.die))]
              /\ ctask' = [ctask EXCEPT ![t].pc = "done"]

\* add_table after an add; remove_table after a remove that left no entry
Register(t) ==
    LET cmd == ctask[t].cmd
        m == ctask[t].mgr
    IN
    /\ ctask[t].pc = "mutated"
    /\ may_step(t)
    /\ creg' = IF cmd.op = "add" THEN m
               ELSE IF count(cobj[m]) = 0 THEN 0 ELSE creg
    /\ ctask' = [ctask EXCEPT ![t].pc = "done"]
    /\ UNCHANGED <<cobj, cinit>>

ConcNext ==
    \/ \E t \in Tasks : GetTable(t) /\ UNCHANGED <<ivars, mvars, svars, xvars>>
    \/ \E t \in Tasks : Mutate(t) /\ UNCHANGED <<ivars, mvars, svars, xvars>>
    \/ \E t \in Tasks : Register(t) /\ UNCHANGED <<ivars, mvars, svars, xvars>>

ConcSpec == ConcInit /\ [][ConcNext]_vars

-----------------------------------------------------------------------------
(* The macro commands                                                      *)

MacroNames == { <<"a", "b">>, <<"A", "b">>, <<"a", "_">> }

\* the rolls a definition gives: a pool with and without a difficulty, an
\* arithmetic roll, and a text that is no roll
Rolls == { <<"7", " ", "6">>, <<"5">>, <<"2", "d", "6", "+", "3">>, <<"n", "o">> }

\* the modifiers a use gives: none, a pool delta with and without its sign,
\* a pool delta and a difficulty, a difficulty delta alone
Mods == { <<>>, <<" ", "+", "2">>, <<" ", "2">>, <<" ", "-", "1", " ", "8">>,
          <<" ", "0", " ", "+", "1">> }

CommentGiven == <<"h", "i">>

\* the comment a use carries
CommentUsed == <<"o", "h">>

\* the commands: the text of each kind, as the user types it
DefineText(name, roll) == name \o <<" ", "=", " ">> \o roll
CommentText(name, comment) == name \o <<" ", "c", "=">> \o comment
UseText(name, mods) == name \o mods
DeleteText(name) == name \o <<" ", "=">>

\* a name of two words, with and without a roll after it
MultiwordTexts == { <<"a", "b", " ", "c", "d", " ", "x">>,
                    <<"a", "b", " ", "c", "d", " ", "=", " ", "5">> }

UnknownTexts == { <<"?">> }

\* a macro command: query_saved_rolls, and the roll its result comes to
MacroCommandBy(guild, userid, text, comment) ==
    /\ query_saved_rolls(guild, userid, text, comment)
    /\ mcmd' = text
    /\ mwho' = Owner(guild, userid)
    /\ proll' = roll_of(mlast', default_diff)

MacroCommand(text, comment) == MacroCommandBy(Guild, User, text, comment)

Define == \E name \in MacroNames, roll \in Rolls, comment \in {<<>>, CommentGiven} :
    /\ MacroCommand(DefineText(name, roll), comment)
    /\ UNCHANGED <<ivars, cvars, default_diff, xvars>>

SetComment == \E name \in MacroNames, comment \in {<<>>, CommentGiven} :
    /\ MacroCommand(CommentText(name, comment), <<>>)
    /\ UNCHANGED <<ivars, cvars, default_diff, xvars>>

Use == \E name \in MacroNames, mods \in Mods, comment \in {<<>>, CommentUsed} :
    /\ MacroCommand(UseText(name, mods), comment)
    /\ UNCHANGED <<ivars, cvars, default_diff, xvars>>

Delete == \E name \in MacroNames :
    /\ MacroCommand(DeleteText(name), <<>>)
    /\ UNCHANGED <<ivars, cvars, default_diff, xvars>>

Other == \E text \in MultiwordTexts \cup UnknownTexts :
    /\ MacroCommand(text, <<>>)
    /\ UNCHANGED <<ivars, cvars, default_diff, xvars>>

MacroNext == Define \/ SetComment \/ Use \/ Delete \/ Other

MacroSpec == Init /\ [][MacroNext]_vars

-----------------------------------------------------------------------------
(* Pool rolls: typed, or come to by the use of a macro, under the guild's  *)
(* default difficulty                                                      *)

\* the values an administrator gives for default_diff
DiffTexts == { <<"1">>, <<"2">>, <<"1", "0">>, <<"1", "1">>, <<"x">> }

\* the pool rolls a user types
PoolTexts == { <<"5">>, <<"7", " ", "6">>, <<"0">>, <<"7", " ", "1">>,
               <<"7", " ", "1", "1">>, <<"3", " ", "1", "0">> }

\* the macro of these rolls and the modifiers it is used with: none, a pool
\* delta that empties the pool or takes it below zero, a difficulty moved or
\* set out of 2..10, modifiers that keep both in range, and a pool delta of
\* zero alone
PoolMacro == <<"a", "b">>
PoolRolls == { <<"7", " ", "6">>, <<"5">> }
PoolMods == { <<>>, <<" ", "-", "7">>, <<" ", "-", "9">>, <<" ", "0", " ", "+", "5">>,
              <<" ", "0", " ", "1">>, <<" ", "+", "2", " ", "1", "0">>,
              <<" ", "0">>, <<" ", "+", "0">> }

SetDefaultDiff == \E value \in DiffTexts :
    /\ update_default_diff(value)
    /\ UNCHANGED <<ivars, cvars, mvars, xvars>>

\* a pool roll typed as a command
RollPool == \E syntax \in PoolTexts :
    /\ proll' = pool_roll(syntax, default_diff)
    /\ UNCHANGED <<ivars, cvars, mvars, default_diff, xvars>>

PoolDefine == \E roll \in PoolRolls :
    /\ MacroCommand(DefineText(PoolMacro, roll), <<>>)
    /\ UNCHANGED <<ivars, cvars, default_diff, xvars>>

PoolUse == \E mods \in PoolMods :
    /\ MacroCommand(UseText(PoolMacro, mods), <<>>)
    /\ UNCHANGED <<ivars, cvars, default_diff, xvars>>

PoolNext == SetDefaultDiff \/ RollPool \/ PoolDefine \/ PoolUse

PoolSpec == Init /\ [][PoolNext]_vars

-----------------------------------------------------------------------------
(* Macro commands of several users in several guilds                       *)

\* who gives the commands: a user in a guild, the same user in another
\* guild, another user in the first guild
Owners == { Owner("g", "u"), Owner("h", "u"), Owner("g", "v") }

OwnerRolls == { <<"5">>, <<"7", " ", "6">> }

OwnerDefine == \E o \in Owners, name \in MacroNames, roll \in OwnerRolls,
                  comment \in {<<>>, CommentGiven} :
    /\ MacroCommandBy(o.guild, o.user, DefineText(name, roll), comment)
    /\ UNCHANGED <<ivars, cvars, default_diff, xvars>>

OwnerSetComment == \E o \in Owners, name \in MacroNames, comment \in {<<>>, CommentGiven} :
    /\ MacroCommandBy(o.guild, o.user, CommentText(name, comment), <<>>)
    /\ UNCHANGED <<ivars, cvars, default_diff, xvars>>

OwnerDelete == \E o \in Owners, name \in MacroNames :
    /\ MacroCommandBy(o.guild, o.user, DeleteText(name), <<>>)
    /\ UNCHANGED <<ivars, cvars, default_diff, xvars>>

\* a define handled by the older store_roll
LegacyDefine == \E o \in Owners, name \in MacroNames, roll \in OwnerRolls :
    /\ legacy_store_roll(o.guild, o.user, name, roll)
    /\ mcmd' = DefineText(name, roll)
    /\ mwho' = o
    /\ UNCHANGED <<ivars, cvars, svars, xvars>>

OwnerNext == OwnerDefine \/ OwnerSetComment \/ OwnerDelete \/ LegacyDefine

OwnerSpec == Init /\ [][OwnerNext]_vars

-----------------------------------------------------------------------------
(* Settings commands: two guilds, each with or without a row at start-up   *)

\* a valid and an invalid difficulty, a prefix and none, chronicles mode on
\* and off, a toggle set and a word that is no bool
UpdateTexts ==
    { <<"default_diff", <<"8">>>>, <<"default_diff", <<"1", "1">>>>,
      <<"prefix", <<"?">>>>, <<"prefix", <<>>>>,
      <<"chronicles", <<"t", "r", "u", "e">>>>, <<"chronicles", <<"o", "f", "f">>>>,
      <<"nullify_ones", <<"y", "e", "s">>>>, <<"no_botch", <<"x">>>> }

PrefixArgs == { NoPrefix, <<"?">> }

GuildStart ==
    /\ InitiativeInit /\ ConcIdle /\ MacroInit /\ SettingsInit /\ DiceInit /\ CommandInit
    /\ ReactionIdle
    /\ \E loaded \in SUBSET Guilds : Loaded(loaded)

\* a settings command comes from a guild the bot has joined
Joined(guild) == gstore[guild] # NoRow

Update ==
    /\ gcount < MaxUpdates
    /\ \E guild \in Guilds, kv \in UpdateTexts :
            Joined(guild) /\ update(guild, kv[1], kv[2])
    /\ gcount' = gcount + 1
    /\ UNCHANGED <<ivars, cvars, mvars, svars, droll, command, rvars>>

JoinGuild ==
    /\ gcount < MaxUpdates
    /\ \E guild \in Guilds : ~Joined(guild) /\ add_guild(guild)
    /\ gcount' = gcount + 1
    /\ UNCHANGED <<ivars, cvars, mvars, svars, droll, command, rvars>>

SetPrefix ==
    /\ gcount < MaxUpdates
    /\ \E guild \in Guilds, arg \in PrefixArgs : Joined(guild) /\ set_prefix(guild, arg)
    /\ gcount' = gcount + 1
    /\ UNCHANGED <<ivars, cvars, mvars, svars, droll, command, rvars>>

ResetPrefix ==
    /\ gcount < MaxUpdates
    /\ \E guild \in Guilds : Joined(guild) /\ reset_prefix(guild)
    /\ gcount' = gcount + 1
    /\ UNCHANGED <<ivars, cvars, mvars, svars, droll, command, rvars>>

GuildNext == Update \/ JoinGuild \/ SetPrefix \/ ResetPrefix

GuildSpec == GuildStart /\ [][GuildNext]_vars

-----------------------------------------------------------------------------
(* Messages of standard_roll: text, comments and mentions                  *)

MaxPieces == 3      \* the most pieces of a message

\* where message.content and message.clean_content differ: a mention of a
\* user and a mention of a channel, as sent and as shown
Piece(raw, clean) == [raw |-> raw, clean |-> clean]

Pieces ==
    { Piece(<<"5">>, <<"5">>), Piece(<<" ">>, <<" ">>), Piece(<<"#">>, <<"#">>),
      Piece(<<"h">>, <<"h">>),
      Piece(<<"<", "@", "1", ">">>, <<"@", "A">>),
      Piece(<<"<", "#", "1", ">">>, <<"#", "c">>) }

RECURSIVE RawOf(_)
RawOf(pieces) == IF pieces = <<>> THEN <<>> ELSE Head(pieces).raw \o RawOf(Tail(pieces))

RECURSIVE CleanOf(_)
CleanOf(pieces) == IF pieces = <<>> THEN <<>> ELSE Head(pieces).clean \o CleanOf(Tail(pieces))

CommentStart ==
    /\ InitiativeInit /\ ConcIdle /\ MacroInit /\ SettingsInit /\ DiceInit /\ GuildIdle
    /\ ReactionIdle
    /\ \E pieces \in UNION {[1..k -> Pieces] : k \in 1..MaxPieces} :
            command = [kind |-> "message", raw |-> RawOf(pieces), clean |-> CleanOf(pieces)]

\* standard_roll splits the message
SplitComment ==
    /\ command.kind = "message"
    /\ command' = [kind |-> "split", raw |-> command.raw, clean |-> command.clean,
                   parts |-> split_comment(command.raw, command.clean)]
    /\ UNCHANGED <<ivars, cvars, mvars, svars, droll, gvars, rvars>>

CommentNext == SplitComment

CommentSpec == CommentStart /\ [][CommentNext]_vars

-----------------------------------------------------------------------------
(* Rolls evaluated: the dice are drawn from a few faces                    *)

\* a face that subtracts, a face that succeeds at some difficulties, a ten
DiceFaces == {1, DefaultDiff, D10}

Difficulties == {MinDiff, DefaultDiff, MaxDiff}

Draws(n) == UNION {[1..k -> DiceFaces] : k \in 0..n}

\* the dice of a pool roll before they are scored: the pool's dice and the
\* dice its exploding tens drew, no more and no fewer
Drawn(dice, extra, d, rules) ==
    [kind |-> "dice", dice |-> dice, extra |-> extra, diff |-> d, rules |-> rules]

\* the arithmetic rolls a user types: dice and a flat integer, one die and
\* a flat integer, dice alone, one die alone, two terms of dice
TradTexts == { <<"2", "d", "6", "+", "3">>, <<"1", "d", "6", " ", "+", " ", "3">>,
               <<"2", "d", "6">>, <<"1", "d", "6">>,
               <<"1", "d", "6", "+", "1", "d", "6">> }

TradFaces == {4, 5}

\* the dice of a roll before they are scored or added up: of a pool roll
\* the dice of the pool and the dice its exploding tens drew, no more and
\* no fewer; of an arithmetic roll as many dice as its terms draw
DiceStart ==
    /\ InitiativeInit /\ ConcIdle /\ MacroInit /\ SettingsInit /\ GuildIdle /\ CommandInit
    /\ ReactionIdle
    /\ \/ \E dice \in Draws(MaxPool) \ {<<>>}, extra \in Draws(MaxExtra),
             d \in Difficulties, rules \in Toggles :
                /\ LET e == evaluate(dice, extra, d, rules)
                   IN  e.complete /\ e.left = <<>>
                /\ droll = Drawn(dice, extra, d, rules)
       \/ \E syntax \in TradTexts, k \in 1..MaxPool :
            \E dice \in [1..k -> TradFaces] :
                /\ tradx(syntax) /\ Len(dice) = DiceDrawn(Terms(syntax))
                /\ droll = [kind |-> "terms", syntax |-> syntax, dice |-> dice]

\* a pool roll is evaluated
EvaluatePool ==
    /\ droll.kind = "dice"
    /\ droll' = RollResult(droll.dice, droll.extra, droll.diff, droll.rules)
    /\ UNCHANGED <<ivars, cvars, mvars, svars, gvars, command, rvars>>

\* an arithmetic roll is evaluated
Traditional ==
    /\ droll.kind = "terms"
    /\ droll' = traditional_roll(droll.syntax, droll.dice)
    /\ UNCHANGED <<ivars, cvars, mvars, svars, gvars, command, rvars>>

DiceNext == EvaluatePool \/ Traditional

DiceSpec == DiceStart /\ [][DiceNext]_vars

-----------------------------------------------------------------------------
(* Reaction events on one message, their handlers interleaved at the       *)
(* awaits                                                                  *)

Reactors == {"Alice", "Bob"}
Emojis == {ThumbsUp, Heart, Check}
Suggested == <<"a", "b">>

\* a message of the bot or of a user, with or without embeds, mentioning
\* a user or nobody, with or without a suggestion in its text
ReactionStart ==
    /\ InitiativeInit /\ ConcIdle /\ MacroInit /\ SettingsInit /\ DiceInit /\ GuildIdle
    /\ CommandInit
    /\ rmsg \in { Posted(author, embeds, mentions, suggestion, {}) :
                    author \in {Bot, "Alice"}, embeds \in BOOLEAN,
                    mentions \in {{}, {"Alice"}},
                    suggestion \in {NoSuggestion, Suggested} }
    /\ rtask = [t \in 1..MaxReactions |-> Waiting]
    /\ rolled = <<>>

\* a user adds a reaction: the event's handler starts
ReactionAdd == \E t \in 1..MaxReactions, user \in Reactors, emoji \in Emojis :
    /\ rtask[t].pc = "none"
    /\ on_reaction_add(t, user, emoji)
    /\ UNCHANGED <<ivars, cvars, mvars, svars, droll, gvars, command>>

HandleCommand == \E t \in 1..MaxReactions :
    /\ rtask[t].pc = "handle_command"
    /\ handle_command(t)
    /\ UNCHANGED <<ivars, cvars, mvars, svars, droll, gvars, command>>

AddReaction == \E t \in 1..MaxReactions :
    /\ rtask[t].pc = "add_reaction"
    /\ add_reaction(t)
    /\ UNCHANGED <<ivars, cvars, mvars, svars, droll, gvars, command>>

ReactionNext == ReactionAdd \/ HandleCommand \/ AddReaction

ReactionSpec == ReactionStart /\ [][ReactionNext]_vars


-----------------------------------------------------------------------------
(* Properties of the initiative table                                      *)

Entries == table.entries

\* the name a command is about: the one given, or the sender's
Who(c) == IF c = None THEN Author ELSE c

Named(s, c) == \E i \in 1..Len(s) : s[i].name = c

FirstOf(s, c) == CHOOSE i \in 1..Len(s) :
    s[i].name = c /\ \A j \in 1..(i - 1) : s[j].name # c

Occurrences(s, e) == Cardinality({ i \in 1..Len(s) : s[i] = e })

SameBag(s, t) ==
    /\ Len(s) = Len(t)
    /\ \A i \in 1..Len(s) : Occurrences(s, s[i]) = Occurrences(t, s[i])

NameMods(s, c, m) == Cardinality({ i \in 1..Len(s) : s[i].name = c /\ s[i].mod = m })

\* C1: after any sequence of commands the table is in descending order of
\* modifier + die, and the characters in it are exactly those added and not
\* removed since.
C1_SortedAndExact ==
    /\ \A i, j \in 1..Len(Entries) :
         i < j => Entries[i].mod + Entries[i].die >= Entries[j].mod + Entries[j].die
    /\ { Entries[i].name : i \in 1..Len(Entries) } = present

\* a modified table whose order by score is not its order by modifier
C1_Witness ==
    /\ last.op = "modify" /\ last.msg = "modified"
    /\ Len(Entries) = 2
    /\ Entries[1].name # Entries[2].name
    /\ Entries[1].mod < Entries[2].mod
    /\ Entries[1].mod + Entries[1].die > Entries[2].mod + Entries[2].die

\* C2: a table is registered for the channel exactly when it holds an entry;
\* only an add registers one, only a remove or a clear unregisters it, and a
\* clear always leaves the channel without a table.
C2_TableIffEntries ==
    /\ [](table.exists <=> Len(Entries) > 0)
    /\ [][ /\ (~table.exists /\ table'.exists) => last'.op = "add"
           /\ (table.exists /\ ~table'.exists) => last'.op \in {"remove", "clear"}
           /\ last'.op = "clear" => ~table'.exists ]_ivars

\* the last entry was removed and the table went with it
C2_Witness ==
    /\ last.op = "remove" /\ last.msg = "removed, table cleared"
    /\ ~table.exists

\* C3: modify adds the delta to the modifier of the character's first entry,
\* keeps its die, leaves every other entry as it was and keeps the number of
\* entries.
C3_ModifyAddsDelta ==
    [][ \A c \in Given, d \in {-2, 2} :
          (/\ last'.op = "modify"
           /\ Named(Entries, Who(c))
           /\ initiative(Author, SignedStr(d), c)) =>
             LET i == FirstOf(Entries, Who(c))
                 old == Entries[i]
             IN /\ Len(table'.entries) = Len(Entries)
                /\ SameBag(table'.entries,
                           [Entries EXCEPT ![i] = [old EXCEPT !.mod = old.mod + d]])
                /\ last'.msg = "modified" ]_ivars

\* Alice rolled 3 with die 7 and was modified by -2: modifier 1, score 8
C3_Witness ==
    /\ last.op = "modify" /\ last.msg = "modified" /\ last.char = "Alice"
    /\ \E i \in 1..Len(Entries) :
         Entries[i].name = "Alice" /\ Entries[i].mod = 1 /\ Entries[i].die = 7

\* C4: remove deletes every entry of the character and no other entry, the
\* channel loses its table when none is left, and a remove for a character
\* without an entry, or without a table, reports it and changes nothing.
C4_RemoveAllOfCharacter ==
    [][ \A c \in Given :
          (last'.op = "remove" /\ initiative_removal(Author, c)) =>
             IF table.exists /\ Named(Entries, Who(c))
             THEN /\ table'.entries = SelectSeq(Entries, LAMBDA e : e.name # Who(c))
                  /\ (Len(table'.entries) = 0 => ~table'.exists)
                  /\ last'.msg \in {"removed", "removed, table cleared"}
             ELSE /\ table' = table /\ rows' = rows
                  /\ last'.msg \in {"not running", "not in initiative"} ]_ivars

\* a character holding two entries was removed, and the table with them
C4_Witness ==
    /\ last.op = "remove" /\ last.n = 2
    /\ last.msg = "removed, table cleared"
    /\ ~table.exists

\* C5: a reroll leaves no entry with a declared action, draws every die in
\* 1..10 and keeps the number of entries and each entry's character and
\* modifier.
C5_RerollClearsActions ==
    [][ (last'.op = "reroll" /\ table.exists) =>
          /\ Len(table'.entries) = Len(Entries)
          /\ \A i \in 1..Len(table'.entries) :
               /\ table'.entries[i].action = None
               /\ table'.entries[i].die \in 1..D10
          /\ \A c \in Characters, m \in (0 - MaxMod)..MaxMod :
               NameMods(table'.entries, c, m) = NameMods(Entries, c, m) ]_ivars

\* a table of two entries was rerolled after an action had been declared
C5_Witness ==
    /\ last.op = "reroll" /\ last.n = 2
    /\ \E x \in rows : x.action = "bite"
    /\ \A i \in 1..Len(Entries) : Entries[i].action = None

\* C6: declare attaches the action to an entry of the character when there
\* is one; without one, or without a table, it reports it and leaves the
\* table and the persisted rows unchanged.
C6_DeclareOrReport ==
    [][ \A act \in Actions, c \in Given, n \in 0..MaxCelerity :
          (last'.op = "declare" /\ initiative_declare(Author, act, c, n)) =>
             IF table.exists /\ Named(Entries, Who(c))
             THEN /\ \E i \in 1..Len(table'.entries) :
                       /\ table'.entries[i].name = Who(c)
                       /\ table'.entries[i].action = act
                  /\ last'.msg = "declared"
             ELSE /\ table' = table /\ rows' = rows
                  /\ last'.msg \in {"not set", "not in the table"} ]_ivars

\* Bob, named in the command, has his action declared
C6_Witness ==
    /\ last.op = "declare" /\ last.msg = "declared" /\ last.char = "Bob"
    /\ \E i \in 1..Len(Entries) : Entries[i].name = "Bob" /\ Entries[i].action = "bite"

RowsAgree ==
    /\ Cardinality(rows) = Len(Entries)
    /\ \A i \in 1..Len(Entries) :
         \E x \in rows : /\ x.name = Entries[i].name
                         /\ x.mod = Entries[i].mod
                         /\ x.die = Entries[i].die

\* C8: after every add, modify, remove and clear the persisted rows describe
\* the entries of the table: the same characters, modifiers and dice, also
\* for a character with more than one entry.
C8_RowsMirrorTable ==
    (/\ last.op \in {"add", "modify", "remove", "clear"}
     /\ last.msg \in {"rolled", "modified", "removed", "removed, table cleared",
                      "cleared"})
        => RowsAgree

-----------------------------------------------------------------------------
(* Properties of two commands in flight                                    *)

\* the table after a command handled alone
Alone(cmd, t) ==
    CASE cmd.op = "add" ->
           add_table(add_init(t.entries, cmd.char, cmd.mod, cmd.die))
      [] cmd.op = "modify" ->
           IF Named(t.entries, cmd.char)
           THEN [t EXCEPT !.entries = modify_init(t.entries, cmd.char, cmd.mod)]
           ELSE t
      [] cmd.op = "remove" ->
           IF ~Named(t.entries, cmd.char) THEN t
           ELSE IF \A i \in 1..Len(t.entries) : t.entries[i].name = cmd.char THEN Absent
           ELSE [t EXCEPT !.entries = remove_init(t.entries, cmd.char)]
      [] cmd.op = "reroll" ->
           IF t.exists
           THEN [t EXCEPT !.entries = reroll_all(t.entries, SameFace(t.entries, cmd.die))]
           ELSE t

BothDone == \A t \in DOMAIN ctask : ctask[t].pc = "done"

\* C9: when two commands on the channel have both been handled, the table
\* is the one that handling them one after the other, in one of the two
\* orders, gives: no update of either is lost.
C9_SerialOutcome ==
    (ctask # <<>> /\ BothDone) =>
        Registered \in { Alone(ctask[2].cmd, Alone(ctask[1].cmd, cinit)),
                         Alone(ctask[1].cmd, Alone(ctask[2].cmd, cinit)) }

\* two adds on a channel that had no table: both entries are in the table
C9_Witness ==
    /\ ctask # <<>> /\ BothDone
    /\ ~cinit.exists
    /\ ctask[1].cmd.op = "add" /\ ctask[2].cmd.op = "add"
    /\ creg # 0
    /\ Len(cobj[creg]) = 2

-----------------------------------------------------------------------------
(* Properties of the macro store                                           *)

\* two names that differ at most in the case of their letters
SameName(a, b) == Len(a) = Len(b) /\ \A i \in 1..Len(a) : Lower(a[i]) = Lower(b[i])

Contains(text, part) ==
    \E i \in 0..(Len(text) - Len(part)) : SubSeq(text, i + 1, i + Len(part)) = part

\* the last command defined a macro and the store took it
Defined(r) ==
    r.op = "define" /\ r.text \in {"saved", "updated syntax", "updated syntax and comment"}

\* C10: a use straight after a valid definition, under the defined name or one
\* that differs only in letter case, returns exactly the stored syntax when it
\* gives no deltas; with a pool delta +k on the stored syntax `p d` it returns
\* `(p+k) d` and a notice of override that contains `Pool +k.`
C10_MacroRoundTrip ==
    [][ ( /\ mlast'.op = "use"
          /\ Defined(mlast)
          /\ SameName(mlast'.name, mlast.name) )
        => /\ mlast'.arg = <<>>
                => /\ mlast'.kind = "roll"
                   /\ mlast'.syntax = mlast.arg
                   /\ mlast'.override = <<>>
           /\ \A k \in 1..9 :
                ( /\ mlast'.arg = <<"+">> \o NatStr(k)
                  /\ Len(Split(mlast.arg)) = 2 )
                => /\ mlast'.kind = "roll"
                   /\ mlast'.syntax =
                        NatStr(NatOf(Split(mlast.arg)[1]) + k) \o <<" ">> \o Split(mlast.arg)[2]
                   /\ Contains(mlast'.override,
                               <<"P", "o", "o", "l", " ", "+">> \o NatStr(k) \o <<".">>)
      ]_vars

\* `Ab +2` used on the macro defined as `ab = 7 6` gave `9 6` and `Pool +2.`
C10_Witness ==
    /\ mlast.op = "use"
    /\ mlast.name = <<"A", "b">>
    /\ \E r \in macros : r.name = <<"a", "b">> /\ r.syntax = <<"7", " ", "6">>
    /\ mlast.syntax = <<"9", " ", "6">>
    /\ Contains(mlast.override, <<"P", "o", "o", "l", " ", "+", "2", ".">>)

\* the user's macro under the name, whatever the case of its letters
Stored(rs, name) == \E r \in rs : SameName(r.name, name)

NotFound == {"not found", "did you mean"}

\* C11: a delete of a stored macro leaves none under that name, a use of a
\* name with no macro under it returns a not-found message (with or without
\* a suggestion), a name gets a macro only by being defined, and a delete of
\* a name that is not stored returns a not-found message and leaves the
\* store unchanged.
C11_DeleteThenNotFound ==
    [][ \A n \in MacroNames :
          /\ (mlast'.op = "delete" /\ mlast'.name = n /\ Stored(macros, n))
                => ~Stored(macros', n) /\ mlast'.text = "deleted"
          /\ (mlast'.op = "delete" /\ mlast'.name = n /\ ~Stored(macros, n))
                => macros' = macros /\ mlast'.text = "not found"
          /\ (mlast'.op = "use" /\ mlast'.name = n /\ ~Stored(macros, n))
                => mlast'.kind = "message" /\ mlast'.text \in NotFound
          /\ (~Stored(macros, n) /\ Stored(macros', n))
                => mlast'.op = "define" /\ SameName(mlast'.name, n)
      ]_mvars

\* C12: the store never holds two records of one user in one guild whose
\* names differ at most in letter case, and a define of a name stored under
\* another case updates that record and inserts none.
C12_OneRecordPerName ==
    /\ [](\A r1 \in macros, r2 \in macros :
            (r1.guild = r2.guild /\ r1.user = r2.user /\ SameName(r1.name, r2.name))
                => r1 = r2)
    /\ [][ (mlast'.op = "define" /\ Stored(macros, mlast'.name)
                /\ mlast'.text # "invalid roll syntax")
            => /\ Cardinality(macros') = Cardinality(macros)
               /\ \E r \in macros' :
                    SameName(r.name, mlast'.name) /\ r.syntax = mlast'.arg
         ]_mvars

\* `Ab = 7 6` given while `ab` was stored: the one record is updated
C12_Witness ==
    /\ mlast.op = "define" /\ mlast.name = <<"A", "b">>
    /\ mlast.text \in {"updated syntax", "updated syntax and comment"}
    /\ \E r \in macros : r.name = <<"a", "b">> /\ r.syntax = <<"7", " ", "6">>
    /\ ~\E r \in macros : r.name = <<"A", "b">>

\* C13: a define whose right-hand side is no valid roll is answered with the
\* message that names that text, and the store is left exactly as it was.
C13_InvalidDefineRejected ==
    [][ (mlast'.op = "define" /\ ~is_valid_roll(mlast'.arg))
        => /\ macros' = macros
           /\ mlast'.kind = "message"
           /\ mlast'.text = "invalid roll syntax"
      ]_mvars

\* `ab = no` was rejected while a macro was stored
C13_Witness ==
    /\ mlast.op = "define" /\ mlast.text = "invalid roll syntax"
    /\ mlast.name = <<"a", "b">> /\ mlast.arg = <<"n", "o">>
    /\ \E r \in macros : r.name = <<"a", "b">> /\ r.comment = CommentGiven

\* the record under the name, whatever the case of its letters
Record(rs, name) == CHOOSE r \in rs : SameName(r.name, name)

\* C14: a define of a stored name overwrites the stored syntax, replaces the
\* stored comment when it carries one and keeps it when it carries none; a
\* comment-set with an empty comment clears the comment and keeps the syntax.
C14_RedefineKeepsComment ==
    [][ \A name \in MacroNames :
          /\ \A roll \in Rolls, comment \in {<<>>, CommentGiven} :
               ( /\ mlast'.op = "define" /\ mlast'.name = name /\ mlast'.arg = roll
                 /\ Stored(macros, name) /\ is_valid_roll(roll)
                 /\ query_saved_rolls(Guild, User, name \o <<" ", "=", " ">> \o roll, comment) )
               => /\ Stored(macros', name)
                  /\ Record(macros', name).syntax = roll
                  /\ Record(macros', name).comment =
                        IF comment # <<>> THEN comment ELSE Record(macros, name).comment
          /\ ( /\ mlast'.op = "comment" /\ mlast'.name = name
               /\ Stored(macros, name)
               /\ query_saved_rolls(Guild, User, name \o <<" ", "c", "=">>, <<>>) )
             => /\ Stored(macros', name)
                /\ Record(macros', name).comment = <<>>
                /\ Record(macros', name).syntax = Record(macros, name).syntax
      ]_mvars

\* a macro with a comment was redefined without one: the comment is kept
C14_Witness ==
    /\ mlast.op = "define" /\ mlast.text = "updated syntax"
    /\ Stored(macros, mlast.name)
    /\ Record(macros, mlast.name).syntax = <<"5">>
    /\ Record(macros, mlast.name).comment = CommentGiven

\* the records a use of the name hits
Hit(name) == Selected(macros, Guild, User, name)

\* C15 as stated: on a use that hits a macro the comment of the roll is the
\* stored comment whenever the macro has one, the comment of the command
\* only when it has none.
C15_StoredCommentFirst ==
    [][ \A mods \in Mods, comment \in {<<>>, CommentUsed} :
          ( /\ mlast'.op = "use" /\ mlast'.kind = "roll" /\ mlast'.arg = LStrip(mods)
            /\ query_saved_rolls(Guild, User, mlast'.name \o mods, comment) )
          => \E r \in Hit(mlast'.name) :
                mlast'.comment = IF r.comment # <<>> THEN r.comment ELSE comment
      ]_mvars

\* C15, amended: on a use that hits a macro the comment of the roll is the
\* comment of the command whenever the command carries one, the stored
\* comment only when it carries none.
C15_GivenCommentFirst ==
    [][ \A mods \in Mods, comment \in {<<>>, CommentUsed} :
          ( /\ mlast'.op = "use" /\ mlast'.kind = "roll" /\ mlast'.arg = LStrip(mods)
            /\ query_saved_rolls(Guild, User, mlast'.name \o mods, comment) )
          => \E r \in Hit(mlast'.name) :
                mlast'.comment = IF comment # <<>> THEN comment ELSE r.comment
      ]_mvars

\* a macro stored with a comment was used with another: the roll has the
\* comment of the command
C15_Witness ==
    /\ mlast.op = "use" /\ mlast.kind = "roll"
    /\ mlast.comment = CommentUsed
    /\ Hit(mlast.name) # {}
    /\ \A r \in Hit(mlast.name) : r.comment = CommentGiven

\* the pool modifier of the modifiers given, as text
PoolToken(mods) == Split(mods)[1]

\* C16: a use that hits a macro and gives a pool delta that is not zero and
\* has no sign is answered with a message and no roll syntax; a pool delta
\* with a sign, or zero, is not rejected for its sign, and gives a roll when
\* the macro is a pool roll.
C16_UnsignedPoolRejected ==
    [][ (mlast'.op = "use" /\ mlast'.arg # <<>> /\ Hit(mlast'.name) # {})
        => IF IsDigitStr(PoolToken(mlast'.arg)) /\ NatOf(PoolToken(mlast'.arg)) # 0
           THEN /\ mlast'.kind = "message"
                /\ mlast'.text = "pool modifier needs a sign"
                /\ mlast'.syntax = <<>>
           ELSE /\ mlast'.text # "pool modifier needs a sign"
                /\ (\A r \in Hit(mlast'.name) : IsPoolRoll(r.syntax))
                      => mlast'.kind = "roll" /\ mlast'.syntax # <<>>
      ]_mvars

\* `ab 2` on a stored macro was rejected
C16_Witness ==
    /\ mlast.op = "use" /\ mlast.arg = <<"2">>
    /\ mlast.text = "pool modifier needs a sign" /\ mlast.syntax = <<>>
    /\ Hit(mlast.name) # {}

\* the stored pool and difficulty of a pool roll, the default when it has none
PoolOf(syntax) == NatOf(Split(syntax)[1])
DiffOf(syntax) ==
    IF Len(Split(syntax)) = 2 THEN NatOf(Split(syntax)[2]) ELSE DefaultDiff

\* the difficulty token of the modifiers given (<<>>: none)
DiffToken(mods) == IF Len(Split(mods)) = 2 THEN Split(mods)[2] ELSE <<>>

\* the syntax and the summary the claim describes for a pool roll used with
\* modifiers
ExpectedSyntax(syntax, mods) ==
    LET t == DiffToken(mods) IN
    IntStr(PoolOf(syntax) + ParseInt(PoolToken(mods))) \o <<" ">> \o
    IntStr(IF t = <<>> THEN DiffOf(syntax)
           ELSE IF IsDigitStr(t) THEN NatOf(t)
           ELSE DiffOf(syntax) + ParseInt(t))

ExpectedSummary(text, mods) ==
    LET t == DiffToken(mods)
        k == ParseInt(PoolToken(mods))
    IN /\ IF k # 0
          THEN Contains(text, <<"P", "o", "o", "l", " ">> \o SignedStr(k) \o <<".">>)
          ELSE ~Contains(text, <<"P", "o", "o", "l">>)
       /\ IF t = <<>> \/ (~IsDigitStr(t) /\ ParseInt(t) = 0)
          THEN ~Contains(text, <<"D", "i", "f", "f">>)
          ELSE IF IsDigitStr(t)
          THEN Contains(text, <<"D", "i", "f", "f", ".", " ", "t", "o", " ">> \o t \o <<".">>)
          ELSE Contains(text, <<"D", "i", "f", "f", ".", " ">> \o SignedStr(ParseInt(t)) \o <<".">>)

\* C17: a use with modifiers that gives a roll from a stored pool roll has
\* pool = stored pool + pool delta and difficulty = the value given when the
\* token is digits only, the stored difficulty + the token when it is signed;
\* the summary says `Diff. to M.` or `Diff. +N.` accordingly and leaves out
\* the pool or the difficulty when its delta is zero.
C17_OverrideArithmetic ==
    [][ (mlast'.op = "use" /\ mlast'.arg # <<>> /\ mlast'.kind = "roll")
        => \E r \in Hit(mlast'.name) :
              /\ IsPoolRoll(r.syntax)
              /\ mlast'.syntax = ExpectedSyntax(r.syntax, mlast'.arg)
              /\ ExpectedSummary(mlast'.override, mlast'.arg)
      ]_mvars

\* `7 6` used with `-1 8` gave `6 8` and `Pool -1. Diff. to 8.`
C17_Witness ==
    /\ mlast.op = "use" /\ mlast.arg = <<"-", "1", " ", "8">>
    /\ \E r \in Hit(mlast.name) : r.syntax = <<"7", " ", "6">>
    /\ mlast.syntax = <<"6", " ", "8">>
    /\ mlast.override = <<"P", "o", "o", "l", " ", "-", "1", ".", " ",
                          "D", "i", "f", "f", ".", " ", "t", "o", " ", "8", ".">>

\* the outcome the rules of the grammar give a command, by its form
KindOf(text) ==
    IF \E name \in MacroNames, roll \in Rolls : text = DefineText(name, roll)
    THEN "define"
    ELSE IF \E name \in MacroNames, comment \in {<<>>, CommentGiven} :
                text = CommentText(name, comment)
    THEN "comment"
    ELSE IF \E name \in MacroNames, mods \in Mods : text = UseText(name, mods)
    THEN "use"
    ELSE IF \E name \in MacroNames : text = DeleteText(name)
    THEN "delete"
    ELSE IF text \in MultiwordTexts THEN "multiword"
    ELSE "unknown"

\* C18: every command has the one outcome its form gives it: `name = syntax`
\* is a define, `name c=comment` a comment-set, `name [+-N] [M|+-N]` a use,
\* `name =` a delete, a name of two words is answered with "macro names
\* can't contain spaces" and anything else with "come again", also when the
\* text matches the pattern of a later rule as well.
C18_FirstRuleWins ==
    [][ /\ mlast'.op = KindOf(mcmd')
        /\ mlast'.op = "multiword" => mlast'.text = "macro names can't contain spaces"
        /\ mlast'.op = "unknown" => mlast'.text = "come again"
        /\ mlast'.op \in {"multiword", "unknown"} => macros' = macros
      ]_mvars

\* `ab 2` matches the pattern of a use and that of a multi-word name: it is
\* a use
C18_Witness ==
    /\ mcmd = <<"a", "b", " ", "2">>
    /\ usex(mcmd).ok /\ multiwordx(mcmd)
    /\ mlast.op = "use"

\* C19: no macro command ends in a fault: each returns roll syntax or a
\* plain message, also a use with an override of a macro that a define
\* accepted.
C19_NoUnhandledFault == mlast.kind \in {"roll", "message"}

-----------------------------------------------------------------------------
(* Properties of pool rolls                                                *)

\* C20: the guild's default difficulty is always an integer in 2..10, and no
\* pool roll has its dice drawn with a difficulty outside 2..10 or a pool of
\* zero or less, whether it was typed or is the result of a macro used with
\* an override, with or without a difficulty of its own.
C20_RollsInRange ==
    /\ default_diff \in 2..10
    /\ proll.status = "rolled" => proll.pool >= 1 /\ proll.diff \in 2..10

\* the macro `7 6` used with `0 +5` gave `7 11`, which was rejected, under a
\* default difficulty that had been set to 10
C20_Witness ==
    /\ default_diff = 10
    /\ mlast.op = "use" /\ mlast.kind = "roll"
    /\ mlast.syntax = <<"7", " ", "1", "1">>
    /\ proll.status = "rejected" /\ proll.diff = 11

-----------------------------------------------------------------------------
(* Dice evaluator *)

\* the number of dice of a sequence that show a face of the set
CountOf(faces, S) == Cardinality({i \in DOMAIN faces : faces[i] \in S})

Plain(r) == r.kind = "pool" /\ ~explodes(r.rules) /\ ~doubles(r.rules)

\* C21: with exploding and doubling off, the net successes of a pool roll
\* at a difficulty d in 2..10 are the number of faces >= d, less the number
\* of faces equal to 1 unless nullify-ones is on
C21_NetSuccesses ==
    Plain(droll) =>
        /\ droll.diff \in MinDiff..MaxDiff
        /\ droll.faces = droll.dice
        /\ droll.successes =
              CountOf(droll.faces, droll.diff..D10)
                - (IF droll.rules.nullify_ones THEN 0 ELSE CountOf(droll.faces, {1}))

\* a roll with a success and a 1 under each policy for ones
C21_Witness ==
    /\ Plain(droll)
    /\ ~droll.rules.nullify_ones
    /\ CountOf(droll.faces, {1}) = 1
    /\ CountOf(droll.faces, droll.diff..D10) = 1
    /\ droll.successes = 0

\* C22: a pool roll is flagged a botch exactly when its net successes are
\* <= 0, a natural 1 is among its dice and botches are not disabled; a pool
\* of 1 at difficulty 6 showing 1 is a botch with -1 net successes, or 0
\* under nullify-ones
C22_BotchExactly ==
    droll.kind = "pool" =>
        /\ droll.botch <=> /\ droll.successes <= 0
                           /\ CountOf(droll.faces, {1}) >= 1
                           /\ ~droll.rules.no_botch
        /\ droll.dice = <<1>> /\ droll.diff = DefaultDiff /\ ~droll.rules.no_botch =>
              /\ droll.botch
              /\ droll.successes = IF droll.rules.nullify_ones THEN 0 ELSE -1

C22_Witness ==
    /\ droll.kind = "pool"
    /\ droll.dice = <<1>> /\ droll.diff = DefaultDiff
    /\ ~droll.rules.no_botch /\ ~droll.rules.nullify_ones
    /\ droll.botch /\ droll.successes = -1

\* the net successes of the same pool dice with explode-always off
WithoutExploding(r) ==
    evaluate(r.dice, r.extra, r.diff, [r.rules EXCEPT !.xpl_always = FALSE]).successes

\* C23 as stated: for the same pool dice, a roll under explode-always never
\* has fewer net successes than the roll without it, whatever the dice
\* drawn for the exploding tens show
C23_ExplodeNeverFewer ==
    droll.kind = "pool" /\ droll.rules.xpl_always =>
        droll.successes >= WithoutExploding(droll)

\* C23 as amended: under explode-always the net successes are never fewer
\* than without it when nullify-ones is on, and otherwise fewer by at most
\* the number of dice drawn for exploding tens that show a 1
C23_ExplodeFewerByOnes ==
    droll.kind = "pool" /\ droll.rules.xpl_always =>
        droll.successes >= WithoutExploding(droll)
            - (IF droll.rules.nullify_ones THEN 0 ELSE CountOf(droll.extra, {1}))

\* a ten explodes into a 1
C23_Witness ==
    /\ droll.kind = "pool" /\ droll.rules.xpl_always
    /\ droll.dice = <<D10>> /\ droll.extra = <<1>>
    /\ droll.exploded = 1
    /\ droll.rules.nullify_ones
    /\ droll.successes = WithoutExploding(droll)

-----------------------------------------------------------------------------
(* Arithmetic rolls *)

\* the flat integers of the terms, added up
RECURSIVE FlatSum(_)
FlatSum(terms) ==
    IF terms = <<>> THEN 0
    ELSE (IF Head(terms).m = 0 THEN Head(terms).n ELSE 0) + FlatSum(Tail(terms))

\* C24: the result of an arithmetic roll is the sum of the dice drawn for
\* its NdM terms plus its flat integers; the description is the values of
\* the dice joined by `+`, and is shown exactly when more than one die was
\* drawn
C24_ResultAndDescription ==
    droll.kind = "traditional" =>
        /\ droll.result = IntStr(Sum(droll.dice) + FlatSum(Terms(droll.syntax)))
        /\ droll.described <=> Len(droll.dice) > 1
        /\ droll.described => droll.description = JoinPlus(droll.dice)

-----------------------------------------------------------------------------
(* Settings *)

\* the last command was a successful update of the key
Updated(key) == glast.op = "update" /\ glast.key = key /\ glast.ok

\* the four settings of chronicles mode in a dict or a row
FourOf(s) == <<s.default_diff, s.xpl_always, s.nullify_ones, s.no_botch>>

\* C25: setting chronicles mode sets default difficulty 8 and explode-always,
\* nullify-ones and no-botch true when enabling, default difficulty 6 and the
\* three false when disabling, in the one step of the command: the state
\* any later command finds has all four
C25_ChroniclesSetsFour ==
    Updated("chronicles") =>
        LET on == strtobool(glast.value).value
            four == <<IF on THEN 8 ELSE 6, on, on, on>>
        IN  /\ FourOf(settings_for_guild(glast.guild)) = four
            /\ FourOf(gstore[glast.guild]) = four
            /\ settings_for_guild(glast.guild).chronicles = on

\* chronicles mode enabled for a guild
C25_Witness ==
    /\ Updated("chronicles")
    /\ strtobool(glast.value).value
    /\ FourOf(settings_for_guild(glast.guild)) = <<8, TRUE, TRUE, TRUE>>
    /\ gcount >= 2

-----------------------------------------------------------------------------
(* Ties *)

\* the character has one entry, and the place of it
Single(s, c) == Cardinality(Matches(s, c)) = 1

Tied(s, a, b) == Score(s[FirstOf(s, a)]) = Score(s[FirstOf(s, b)])

-----------------------------------------------------------------------------
(* Comments *)

HasHash(s) == \E i \in DOMAIN s : s[i] = "#"

\* the place of the first '#' of a text that has one
FirstHash(s) == CHOOSE i \in DOMAIN s : s[i] = "#" /\ \A j \in 1..(i - 1) : s[j] # "#"

\* C27: split_comment splits the text at its first '#' into syntax and
\* comment, the clean text exactly when the first '#' is at the same place
\* in the raw and the clean text and the raw text otherwise; a text without
\* '#' is returned whole as the syntax, with no comment
C27_SplitAtFirstHash ==
    command.kind = "split" =>
        LET raw == command.raw
            clean == command.clean
            parts == command.parts
        IN  IF ~HasHash(raw)
            THEN ~parts.commented /\ parts.syntax = raw
            ELSE LET text == IF HasHash(clean) /\ FirstHash(raw) = FirstHash(clean)
                             THEN clean ELSE raw
                 IN  /\ parts.commented
                     /\ ~HasHash(parts.syntax)
                     /\ parts.syntax \o <<"#">> \o parts.comment = text

\* a mention after the comment's '#': the clean text is split
C27_Witness ==
    /\ command.kind = "split"
    /\ command.raw # command.clean
    /\ HasHash(command.raw)
    /\ FirstHash(command.raw) = FirstHash(command.clean)
    /\ command.parts.syntax \o <<"#">> \o command.parts.comment = command.clean

-----------------------------------------------------------------------------
(* Modify without an entry *)

\* C28: a signed modifier for a character without an entry reports that
\* there is nothing to modify and changes nothing: the table keeps its
\* entries in their order, a channel without a table stays without one,
\* and no row is written
C28_ModifyWithoutEntry ==
    [][ \A c \in Given, d \in {-2, 2} :
          (/\ last'.op \in {"add", "modify"}
           /\ ~Named(Entries, Who(c))
           /\ initiative(Author, SignedStr(d), c)) =>
             /\ last'.op = "modify"
             /\ last'.msg = "nothing to modify"
             /\ table' = table
             /\ rows' = rows ]_ivars

\* a modify for a character without an entry while another has one
C28_Witness ==
    /\ last.op = "modify" /\ last.msg = "nothing to modify"
    /\ table.exists /\ Len(Entries) >= 1
    /\ ~Named(Entries, last.char)

\* C29: after a successful update the cache returns for the guild and the
\* key the value the guild's row holds, also for a guild that joined after
\* start-up; after set_prefix and reset_prefix the prefix kept for the
\* guild is the prefix of its row
C29_CacheEqualsStore ==
    /\ glast.op = "update" /\ glast.ok =>
          settings_for_guild(glast.guild)[glast.key] = gstore[glast.guild][glast.key]
    /\ glast.op \in {"set_prefix", "reset_prefix"} =>
          custom_prefixes[glast.guild] = pstore[glast.guild].prefix

\* a guild that joined after start-up sets its default difficulty
C29_Witness ==
    /\ Updated("default_diff")
    /\ gcache[glast.guild] = Shared
    /\ gstore[glast.guild].default_diff = 8
    /\ settings_for_guild(glast.guild).default_diff = 8

\* C30: an update for one guild leaves what every other guild reads as it
\* was, for every setting, whether or not the guilds had rows at start-up
C30_OtherGuildsUnchanged ==
    [][ glast'.op = "update" =>
          \A h \in Guilds \ {glast'.guild} :
              settings_for_guild(h)' = settings_for_guild(h) ]_gvars

-----------------------------------------------------------------------------
(* Properties of the macro store of several users and guilds               *)

\* the record keyed (guild, user, name): the name up to the case of its letters
Keyed(r, who, name) ==
    r.guild = who.guild /\ r.user = who.user /\ SameName(r.name, name)

\* C31: a define, comment-set or delete for (g, u, n) changes no record but
\* the one keyed (g, u, n): the user's macros in other guilds, other users'
\* macros and macros whose name differs from n by more than letter case
\* keep their syntax and comment
C31_OnlyKeyedRecordChanges ==
    [][ mlast'.op \in {"define", "comment", "delete"} =>
          /\ \A r \in macros : ~Keyed(r, mwho', mlast'.name) => r \in macros'
          /\ \A r \in macros' : ~Keyed(r, mwho', mlast'.name) => r \in macros
      ]_mvars

-----------------------------------------------------------------------------
(* Properties of the prefix commands                                       *)

\* C32: set_prefix without an argument answers that a new prefix must be
\* supplied and leaves the guild's stored prefix and the prefix kept in
\* custom_prefixes as they were: only reset_prefix restores the defaults
C32_NoArgumentKeepsPrefix ==
    [][ (glast'.op = "set_prefix" /\ glast'.value = NoPrefix) =>
          /\ glast'.msg = "You must supply a new prefix!"
          /\ pstore'[glast'.guild] = pstore[glast'.guild]
          /\ custom_prefixes'[glast'.guild] = custom_prefixes[glast'.guild]
      ]_gvars

-----------------------------------------------------------------------------
(* Properties of the suggestion of a macro                                 *)

\* C33: a suggestion is rolled at most once, whatever the interleaving of
\* the reaction events: only a thumbs-up by a user the bot's own message
\* mentions is rolled, and after one roll no later thumbs-up is
C33_RolledAtMostOnce ==
    /\ Len(rolled) <= 1
    /\ \A i \in DOMAIN rolled :
          /\ rolled[i].emoji = ThumbsUp
          /\ rmsg.author = Bot
          /\ rolled[i].user \in rmsg.mentions

-----------------------------------------------------------------------------
(* Properties of a macro used with a pool delta of zero                    *)

\* C34: a macro used with a pool delta of zero and no difficulty token comes
\* to the roll it comes to without deltas: the same pool and the same
\* effective difficulty, whether or not the stored syntax has a difficulty,
\* under every default difficulty of the guild
C34_ZeroDeltaSameRoll ==
    [][ (mlast'.op = "use" /\ mlast'.arg \in {<<"0">>, <<"+", "0">>} /\ mlast'.kind = "roll")
        => \E r \in Hit(mlast'.name) : proll' = pool_roll(r.syntax, default_diff)
      ]_mvars

=============================================================================
